---- MODULE Spec2Model ----
(***************************************************************************)
(* sinDet: the per-frame tone tracking engine of main.c.                   *)
(*                                                                         *)
(* audio_callback filters one power spectrum, extracts peaks, matches the  *)
(* qualifying peaks to the tracks (update_track), runs the per-slot        *)
(* pending/active state machine and, on every deactivation, the Morse      *)
(* tone-duration decoder.                                                  *)
(*                                                                         *)
(* Units: times are SDL ticks (ms); frequencies are in 1/FFT_SIZE Hz, so   *)
(* that bin i has the integer frequency i * SAMPLE_RATE; powers are the    *)
(* integer values real^2 + imag^2, on which double arithmetic is exact.     *)
(* estimated_dot_ms is an IEEE 754 double and is computed as the C code    *)
(* computes it, operation by operation, with round-to-nearest-even (the    *)
(* Makefile's gcc -O2 on x86-64: no fused multiply-add, no excess          *)
(* precision).  SDL_GetTicks is taken to be increasing and not to wrap.    *)
(***************************************************************************)
EXTENDS Integers, Sequences, FiniteSets

(***************************************************************************)
(* Natural numbers of any size: little-endian sequences of limbs, with no  *)
(* leading zero limb (zero is the empty sequence).  They carry the 53-bit  *)
(* significands of doubles and their exact products and sums.              *)
(***************************************************************************)
LimbBits == 12

Base == 4096

RECURSIVE Pow2(_)
Pow2(n) == IF n = 0 THEN 1 ELSE 2 * Pow2(n - 1)

RECURSIVE IntBitLen(_)
IntBitLen(n) == IF n = 0 THEN 0 ELSE 1 + IntBitLen(n \div 2)

RECURSIVE NatNorm(_)
NatNorm(a) ==
    IF a = << >> THEN a
    ELSE IF a[Len(a)] = 0 THEN NatNorm(SubSeq(a, 1, Len(a) - 1))
    ELSE a

RECURSIVE NatFromInt(_)
NatFromInt(n) == IF n = 0 THEN << >> ELSE <<n % Base>> \o NatFromInt(n \div Base)

RECURSIVE NatZeros(_)
NatZeros(k) == IF k = 0 THEN << >> ELSE <<0>> \o NatZeros(k - 1)

RECURSIVE NatAddC(_, _, _)
NatAddC(a, b, c) ==
    IF a = << >> /\ b = << >>
    THEN (IF c = 0 THEN << >> ELSE <<c>>)
    ELSE LET x == IF a = << >> THEN 0 ELSE Head(a)
             y == IF b = << >> THEN 0 ELSE Head(b)
             s == x + y + c
         IN  <<s % Base>> \o NatAddC(IF a = << >> THEN a ELSE Tail(a),
                                      IF b = << >> THEN b ELSE Tail(b),
                                      s \div Base)

NatAdd(a, b) == NatAddC(a, b, 0)

\* a - b for a >= b
RECURSIVE NatSubB(_, _, _)
NatSubB(a, b, c) ==
    IF a = << >> THEN << >>
    ELSE LET y == IF b = << >> THEN 0 ELSE Head(b)
             s == Head(a) - y - c
         IN  <<IF s < 0 THEN s + Base ELSE s>>
             \o NatSubB(Tail(a), IF b = << >> THEN b ELSE Tail(b),
                        IF s < 0 THEN 1 ELSE 0)

NatSub(a, b) == NatNorm(NatSubB(a, b, 0))

RECURSIVE NatMulSmallC(_, _, _)
NatMulSmallC(a, k, c) ==
    IF a = << >> THEN (IF c = 0 THEN << >> ELSE <<c>>)
    ELSE LET s == Head(a) * k + c
         IN  <<s % Base>> \o NatMulSmallC(Tail(a), k, s \div Base)

\* a * k for 0 <= k <= Base
NatMulSmall(a, k) == NatNorm(NatMulSmallC(a, k, 0))

RECURSIVE NatMulR(_, _)
NatMulR(a, b) ==
    IF b = << >> THEN << >>
    ELSE NatAdd(NatMulSmallC(a, Head(b), 0), <<0>> \o NatMulR(a, Tail(b)))

NatMul(a, b) == NatNorm(NatMulR(a, b))

\* quotient (limbs, not normalised) and remainder of a by a small k > 0
RECURSIVE NatDivRem(_, _)
NatDivRem(a, k) ==
    IF a = << >> THEN [q |-> << >>, r |-> 0]
    ELSE LET hi  == NatDivRem(Tail(a), k)
             cur == hi.r * Base + Head(a)
         IN  [q |-> <<cur \div k>> \o hi.q, r |-> cur % k]

NatBitLen(a) ==
    IF a = << >> THEN 0 ELSE LimbBits * (Len(a) - 1) + IntBitLen(a[Len(a)])

\* a * 2^s
NatShl(a, s) ==
    IF a = << >> THEN a
    ELSE NatZeros(s \div LimbBits) \o NatMulSmall(a, Pow2(s % LimbBits))

\* floor(a / 2^s), its lowest bit set when a nonzero bit was shifted out
NatShrJam(a, s) ==
    LET k    == s \div LimbBits
        low  == SubSeq(a, 1, IF k < Len(a) THEN k ELSE Len(a))
        high == SubSeq(a, k + 1, Len(a))
        d    == NatDivRem(high, Pow2(s % LimbBits))
        q    == NatNorm(d.q)
        lost == d.r # 0 \/ \E i \in 1..Len(low) : low[i] # 0
    IN  IF lost /\ (q = << >> \/ q[1] % 2 = 0) THEN NatAdd(q, <<1>>) ELSE q

RECURSIVE NatLessR(_, _, _)
NatLessR(a, b, i) ==
    IF i = 0 THEN FALSE
    ELSE IF a[i] # b[i] THEN a[i] < b[i]
    ELSE NatLessR(a, b, i - 1)

NatLess(a, b) ==
    IF Len(a) # Len(b) THEN Len(a) < Len(b) ELSE NatLessR(a, b, Len(a))

(***************************************************************************)
(* IEEE 754 binary64 on non-negative finite values: [m, e] is m * 2^e with *)
(* m a 53-bit significand (or << >> for 0.0).  Every operation is the      *)
(* exact result rounded to nearest, ties to even.  The exponent range is   *)
(* not modelled (no overflow or underflow happens for the magnitudes the   *)
(* decoder sees within the bounds of the model).                           *)
(***************************************************************************)
MantBits == 53

DZero == [m |-> << >>, e |-> 0]

\* the double nearest to M * 2^q
DRound(M, q) ==
    IF M = << >> THEN DZero
    ELSE LET n  == NatBitLen(M)
             J  == IF n >= MantBits + 2
                   THEN NatShrJam(M, n - (MantBits + 2))
                   ELSE NatShl(M, (MantBits + 2) - n)
             d  == NatDivRem(J, 4)
             t  == NatNorm(d.q)
             up == d.r = 3 \/ (d.r = 2 /\ t[1] % 2 = 1)
             r  == IF up THEN NatAdd(t, <<1>>) ELSE t
         IN  IF NatBitLen(r) > MantBits
             THEN [m |-> NatNorm(NatDivRem(r, 2).q), e |-> q + n - MantBits + 1]
             ELSE [m |-> r, e |-> q + n - MantBits]

\* (double) of an unsigned integer
DFromInt(n) == DRound(NatFromInt(n), 0)

DMul(x, y) == DRound(NatMul(x.m, y.m), x.e + y.e)

DAdd(x, y) ==
    LET e == IF x.e < y.e THEN x.e ELSE y.e
    IN  IF x.m = << >> THEN y
        ELSE IF y.m = << >> THEN x
        ELSE DRound(NatAdd(NatShl(x.m, x.e - e), NatShl(y.m, y.e - e)), e)

DLess(x, y) ==
    LET e == IF x.e < y.e THEN x.e ELSE y.e
    IN  IF y.m = << >> THEN FALSE
        ELSE IF x.m = << >> THEN TRUE
        ELSE NatLess(NatShl(x.m, x.e - e), NatShl(y.m, y.e - e))

\* x - y for x >= y
DSub(x, y) ==
    LET e == IF x.e < y.e THEN x.e ELSE y.e
    IN  IF y.m = << >> THEN x
        ELSE DRound(NatSub(NatShl(x.m, x.e - e), NatShl(y.m, y.e - e)), e)

\* x / (double)k for a small integer k > 0
DDivInt(x, k) ==
    LET d == NatDivRem(NatShl(x.m, MantBits + 3), k)
        q == NatNorm(d.q)
    IN  DRound(NatAdd(NatMulSmall(q, 2), IF d.r # 0 THEN <<1>> ELSE << >>),
               x.e - (MantBits + 4))

(***************************************************************************)
(* Program constants (main.c lines 19-35, 53) and the bounds of the model. *)
(* FFT_SIZE and MORSE_BUFFER_SIZE are 2048 and 256 in the program; the     *)
(* model runs the same code on a short transform and a short buffer.       *)
(***************************************************************************)
SAMPLE_RATE == 44100

FFT_SIZE == 36

DETECT_THRESHOLD_TENTHS == 7

FREQUENCY_TOLERANCE == 5

PEAK_SUPPRESS_BINS == 2

SINE_WAVE_MIN_HZ == 20

SINE_WAVE_MAX_HZ == 20000

MORSE_BUFFER_SIZE == 3

MAX_TRACKED_SINES == 5

MaxTime == 720

MaxPersistence == 200

NumBins == FFT_SIZE \div 2

Bins == 0 .. (NumBins - 1)

Slots == 0 .. (MAX_TRACKED_SINES - 1)

NUL == "NUL"

\* i * freq_resolution = i * SAMPLE_RATE / FFT_SIZE Hz, in units of 1/FFT_SIZE Hz
BinFreq(i) == i * SAMPLE_RATE

\* a frequency given in Hz, in the same units
Hz(f) == f * FFT_SIZE

max_possible_power == (FFT_SIZE * FFT_SIZE) \div 16

Abs(x) == IF x < 0 THEN -x ELSE x

VARIABLES
    now,                      \* SDL_GetTicks() as read by the last callback (0: none yet)
    out,                      \* power real^2 + imag^2 of each bin of the last transform
    avg_powers,
    magnitudes,               \* norm * max_possible_power
    top_indices,              \* the last callback's peaks, -1 where none
    calls,                    \* the last callback's update_track calls, in order
    tracks,
    last_match,               \* history: per slot, the time of the last matching peak
    unbroken,                 \* history: per slot, every callback since the track's
                              \* first one matched it
    decoded,                  \* the last callback's decoder runs, in order
    estimated_dot_ms,
    morse_buffer,
    morse_length,
    persistence_threshold_ms,
    bandpass_low_hz,
    bandpass_high_hz,
    averaging_enabled,
    squelch_enabled,
    squelch_threshold,        \* in hundredths
    keyed_frames,             \* environment: frames per keyed tone (0: not keyed)
    lock,                     \* the audio device lock: "free", "ui" or "audio"
    cb_pc,                    \* the audio thread: "idle", or the callback's next stage
    cb_powers,                \* the callback's local powers[] after its filter stage
    ui_pc,                    \* the main loop's next instruction, an index of UILoop
    snapshot,                 \* the main loop's copy of tracks (line 262)
    morse_snapshot,
    dot_snapshot,
    points,                   \* the bar heights of the spectrum line (line 372)
    read_at,                  \* history: `now` as it was at each copy of the loop
    input_gain_db,            \* in hundredths of a dB
    config_file,              \* the lines of sinDet.cfg that load_config has yet to read
    load_pc                   \* "start", or how load_config returned: "read", "absent"

threads == <<lock, cb_pc, cb_powers, ui_pc, snapshot, morse_snapshot, dot_snapshot,
             points, read_at>>

startup == <<input_gain_db, config_file, load_pc>>

vars == <<now, out, avg_powers, magnitudes, top_indices, calls, tracks,
          last_match, unbroken, decoded, estimated_dot_ms, morse_buffer, morse_length,
          persistence_threshold_ms, bandpass_low_hz, bandpass_high_hz,
          averaging_enabled, squelch_enabled, squelch_threshold, keyed_frames,
          threads, startup>>

settings == <<persistence_threshold_ms, bandpass_low_hz, bandpass_high_hz,
              averaging_enabled, squelch_enabled, squelch_threshold>>

EmptyTrack ==
    [freq |-> 0, purity |-> <<0, 1>>, start_time |-> 0, last_seen |-> 0,
     tone_start |-> 0, active |-> FALSE]

(***************************************************************************)
(* Spectral filter stage (audio_callback, lines 481-522).                  *)
(***************************************************************************)
OutOfBand(i) ==
    BinFreq(i) < Hz(bandpass_low_hz) \/ BinFreq(i) > Hz(bandpass_high_hz)

BandPassed_Open(raw, i) == raw[i]

BandPassed(raw, i) == IF OutOfBand(i) THEN 0 ELSE raw[i]

\* AVERAGING_ALPHA * power + (1.0 - AVERAGING_ALPHA) * avg, rounded down to a unit
Averaged(power, avg) == (power + 9 * avg) \div 10

NextAvgPowers(raw) ==
    [i \in Bins |-> IF averaging_enabled
                    THEN Averaged(BandPassed(raw, i), avg_powers[i])
                    ELSE BandPassed(raw, i)]

\* norm = power / max_possible_power capped at 1.0, as norm * max_possible_power
Norm(power) == IF power > max_possible_power THEN max_possible_power ELSE power

\* the threshold never below its default of 0.02
Squelched_DefaultFloor(power) ==
    /\ squelch_enabled
    /\ 100 * Norm(power) <
          (IF squelch_threshold < 2 THEN 2 ELSE squelch_threshold) * max_possible_power

\* squelch_enabled && norm < squelch_threshold
Squelched(power) ==
    squelch_enabled /\ 100 * Norm(power) < squelch_threshold * max_possible_power

\* powers[] after the normalisation loop
FilteredPowers(raw) ==
    LET avg == NextAvgPowers(raw)
    IN  [i \in Bins |-> IF Squelched(avg[i]) THEN 0 ELSE avg[i]]

NextMagnitudes(raw) ==
    LET avg == NextAvgPowers(raw)
    IN  [i \in Bins |-> IF Squelched(avg[i]) THEN 0 ELSE Norm(avg[i])]

RECURSIVE SumPowers(_, _)
SumPowers(powers, n) == IF n = 0 THEN 0 ELSE powers[n - 1] + SumPowers(powers, n - 1)

TotalPower(powers) == SumPowers(powers, NumBins)

(***************************************************************************)
(* Peak extractor (lines 524-551).                                         *)
(***************************************************************************)
IsLocalPeak_TakesTies(powers, i, best_power) ==
    /\ powers[i] >= best_power
    /\ powers[i] > powers[i - 1]
    /\ powers[i] >= powers[i + 1]

IsLocalPeak(powers, i, best_power) ==
    /\ powers[i] > best_power
    /\ powers[i] > powers[i - 1]
    /\ powers[i] >= powers[i + 1]

\* the inner loop: best after scanning bins i .. FFT_SIZE/2 - 2
RECURSIVE ScanBest(_, _, _, _, _)
ScanBest(powers, used, i, best, best_power) ==
    IF i >= NumBins - 1 THEN best
    ELSE IF ~used[i] /\ IsLocalPeak(powers, i, best_power)
         THEN ScanBest(powers, used, i + 1, i, powers[i])
         ELSE ScanBest(powers, used, i + 1, best, best_power)

Suppress_Neighbours(used, best) ==
    [k \in Bins |-> used[k] \/ (k >= best - 1 /\ k <= best + 1)]

Suppress(used, best) ==
    [k \in Bins |-> used[k] \/ (k >= best - PEAK_SUPPRESS_BINS /\ k <= best + PEAK_SUPPRESS_BINS)]

\* the outer loop from pass p on
RECURSIVE FindPeaks(_, _, _, _)
FindPeaks(powers, used, p, top) ==
    IF p >= MAX_TRACKED_SINES THEN top
    ELSE LET best == ScanBest(powers, used, 1, -1, 0)
         IN  IF best = -1 THEN top
             ELSE FindPeaks(powers, Suppress(used, best), p + 1,
                            [top EXCEPT ![p] = best])

TopIndices(powers) ==
    FindPeaks(powers, [k \in Bins |-> FALSE], 0, [p \in Slots |-> -1])

\* peak_power: powers[idx-1] + powers[idx] + powers[idx+1], inside the array
PeakPower(powers, idx) ==
    (IF idx - 1 >= 0 THEN powers[idx - 1] ELSE 0) + powers[idx]
    + (IF idx + 1 < NumBins THEN powers[idx + 1] ELSE 0)

PurityAbove_Half(peak_power, total_power) == 2 * peak_power >= total_power

PurityAbove_AtLeast(peak_power, total_power) ==
    10 * peak_power >= DETECT_THRESHOLD_TENTHS * total_power

\* purity > DETECT_THRESHOLD for purity = peak_power / total_power
PurityAbove(peak_power, total_power) ==
    10 * peak_power > DETECT_THRESHOLD_TENTHS * total_power

Qualifies_AnyFrequency(powers, idx) ==
    /\ idx # -1
    /\ TotalPower(powers) # 0
    /\ PurityAbove(PeakPower(powers, idx), TotalPower(powers))

Qualifies(powers, idx) ==
    /\ idx # -1
    /\ TotalPower(powers) # 0
    /\ PurityAbove(PeakPower(powers, idx), TotalPower(powers))
    /\ BinFreq(idx) >= Hz(bandpass_low_hz)
    /\ BinFreq(idx) <= Hz(bandpass_high_hz)

(***************************************************************************)
(* update_track (lines 437-467).  purity is the pair <<peak_power,         *)
(* total_power>>; a track stores purity * 100.0 as <<100 * peak, total>>.  *)
(***************************************************************************)
MinOf(S) == CHOOSE x \in S : \A y \in S : x <= y

MatchSlot_FirstFree(tr, freq) ==
    LET free == {i \in Slots : tr[i].start_time = 0}
    IN  IF free # {} THEN MinOf(free) ELSE -1

MatchSlot_Strict(tr, freq) ==
    LET near == {i \in Slots : tr[i].start_time # 0
                               /\ Abs(tr[i].freq - freq) < Hz(FREQUENCY_TOLERANCE)}
        free == {i \in Slots : tr[i].start_time = 0}
    IN  IF near # {} THEN MinOf(near)
        ELSE IF free # {} THEN MinOf(free)
        ELSE -1

MatchSlot_LastFree(tr, freq) ==
    LET near == {i \in Slots : tr[i].start_time # 0
                               /\ Abs(tr[i].freq - freq) <= Hz(FREQUENCY_TOLERANCE)}
        free == {i \in Slots : tr[i].start_time = 0}
    IN  IF near # {} THEN MinOf(near)
        ELSE IF free # {} THEN CHOOSE i \in free : \A j \in free : j <= i
        ELSE -1

\* the local match after the two search loops
MatchSlot(tr, freq) ==
    LET near == {i \in Slots : tr[i].start_time # 0
                               /\ Abs(tr[i].freq - freq) <= Hz(FREQUENCY_TOLERANCE)}
        free == {i \in Slots : tr[i].start_time = 0}
    IN  IF near # {} THEN MinOf(near)
        ELSE IF free # {} THEN MinOf(free)
        ELSE -1

\* freq * 0.9 + new * 0.1
SmoothedFreq(old, new) == (9 * old + new) \div 10

update_track(tr, freq, purity, t) ==
    LET match == MatchSlot(tr, freq)
    IN  IF match = -1 THEN tr
        ELSE IF tr[match].start_time = 0
        THEN [tr EXCEPT ![match] =
                 [freq |-> freq, purity |-> <<100 * purity[1], purity[2]>>,
                  start_time |-> t, last_seen |-> t, tone_start |-> 0,
                  active |-> FALSE]]
        ELSE [tr EXCEPT ![match].freq = SmoothedFreq(tr[match].freq, freq),
                        ![match].purity = <<100 * purity[1], purity[2]>>,
                        ![match].last_seen = t]

\* unbroken[match] after a peak matched slot match at tick t
StillUnbroken(st, match, t) ==
    IF st.tr[match].start_time = 0 THEN TRUE
    ELSE IF st.lm[match] = t THEN st.ub[match]
    ELSE st.ub[match] /\ st.lm[match] = now

\* the loop of lines 554-573 from peak i on; st = [tr, lm, ub, calls]
RECURSIVE MatchPeaks(_, _, _, _, _)
MatchPeaks(powers, top, i, st, t) ==
    IF i >= MAX_TRACKED_SINES THEN st
    ELSE IF ~Qualifies(powers, top[i]) THEN MatchPeaks(powers, top, i + 1, st, t)
    ELSE LET freq   == BinFreq(top[i])
             purity == <<PeakPower(powers, top[i]), TotalPower(powers)>>
             match  == MatchSlot(st.tr, freq)
         IN  MatchPeaks(powers, top, i + 1,
                 [tr    |-> update_track(st.tr, freq, purity, t),
                  lm    |-> IF match = -1 THEN st.lm
                            ELSE [st.lm EXCEPT ![match] = t],
                  ub    |-> IF match = -1 THEN st.ub
                            ELSE [st.ub EXCEPT ![match] = StillUnbroken(st, match, t)],
                  calls |-> Append(st.calls,
                                [freq |-> freq, purity |-> purity, match |-> match])],
                 t)

(***************************************************************************)
(* Track state update and tone-duration decoder (lines 575-603).           *)
(***************************************************************************)
DOT_EST_ALPHA == DDivInt(DFromInt(2), 10)

InitialDotMs == 120

\* elapsed >= (Uint32)persistence_threshold_ms; a negative threshold converts to
\* more than 2^31, which no elapsed time of the model reaches
ThresholdReached(elapsed) ==
    IF persistence_threshold_ms < 0 THEN FALSE
    ELSE elapsed >= persistence_threshold_ms

ActivationDue_Late(track, t) == t - track.start_time > persistence_threshold_ms

ActivationDue(track, t) == ThresholdReached(t - track.start_time)

ReleaseDue_Never(track, t) == FALSE

ReleaseDue_SinceStart(track, t) == ThresholdReached(t - track.start_time)

ReleaseDue_Late(track, t) == t - track.last_seen > persistence_threshold_ms

ReleaseDue(track, t) == ThresholdReached(t - track.last_seen)

ToneDuration_SincePending(track) == track.last_seen - track.start_time

ToneDuration(track) == track.last_seen - track.tone_start

IsShort_Inclusive(tone_duration, dot) ==
    ~DLess(DMul(dot, DFromInt(2)), DFromInt(tone_duration))

\* tone_duration < estimated_dot_ms * 2.0
IsShort(tone_duration, dot) == DLess(DFromInt(tone_duration), DMul(dot, DFromInt(2)))

DotAfterShort_Forgets(dot, tone_duration) ==
    DMul(DOT_EST_ALPHA, DFromInt(tone_duration))

DotAfterShort_Undamped(dot, tone_duration) ==
    DAdd(dot, DMul(DOT_EST_ALPHA, DFromInt(tone_duration)))

\* (1.0 - DOT_EST_ALPHA) * estimated_dot_ms + DOT_EST_ALPHA * tone_duration
DotAfterShort(dot, tone_duration) ==
    DAdd(DMul(DSub(DFromInt(1), DOT_EST_ALPHA), dot),
         DMul(DOT_EST_ALPHA, DFromInt(tone_duration)))

DotAfterLong_Undivided(dot, tone_duration) ==
    DAdd(DMul(DSub(DFromInt(1), DOT_EST_ALPHA), dot),
         DMul(DOT_EST_ALPHA, DFromInt(tone_duration)))

\* (1.0 - DOT_EST_ALPHA) * estimated_dot_ms + DOT_EST_ALPHA * (tone_duration / 3.0)
DotAfterLong(dot, tone_duration) ==
    DAdd(DMul(DSub(DFromInt(1), DOT_EST_ALPHA), dot),
         DMul(DOT_EST_ALPHA, DDivInt(DFromInt(tone_duration), 3)))

\* lines 586-593: the symbol and the next estimate
Decode(dot, tone_duration) ==
    IF IsShort(tone_duration, dot)
    THEN [symbol |-> ".", dot |-> DotAfterShort(dot, tone_duration)]
    ELSE [symbol |-> "-", dot |-> DotAfterLong(dot, tone_duration)]

Release_FullKeepsDot(st, i, tone_duration, r) ==
    [tr  |-> [st.tr EXCEPT ![i].active = FALSE, ![i].start_time = 0,
                           ![i].tone_start = 0],
     dot |-> IF st.len < MORSE_BUFFER_SIZE - 1 THEN r.dot ELSE st.dot,
     buf |-> IF st.len < MORSE_BUFFER_SIZE - 1
             THEN [st.buf EXCEPT ![st.len] = r.symbol, ![st.len + 1] = NUL]
             ELSE st.buf,
     len |-> IF st.len < MORSE_BUFFER_SIZE - 1 THEN st.len + 1 ELSE st.len,
     dec |-> Append(st.dec, [slot |-> i, start_time |-> st.tr[i].start_time,
                             tone_duration |-> tone_duration,
                             dot |-> st.dot, symbol |-> r.symbol])]

Release_KeepsToneStart(st, i, tone_duration, r) ==
    [tr  |-> [st.tr EXCEPT ![i].active = FALSE, ![i].start_time = 0],
     dot |-> r.dot,
     buf |-> IF st.len < MORSE_BUFFER_SIZE - 1
             THEN [st.buf EXCEPT ![st.len] = r.symbol, ![st.len + 1] = NUL]
             ELSE st.buf,
     len |-> IF st.len < MORSE_BUFFER_SIZE - 1 THEN st.len + 1 ELSE st.len,
     dec |-> Append(st.dec, [slot |-> i, start_time |-> st.tr[i].start_time,
                             tone_duration |-> tone_duration,
                             dot |-> st.dot, symbol |-> r.symbol])]

Release_FillsBuffer(st, i, tone_duration, r) ==
    [tr  |-> [st.tr EXCEPT ![i].active = FALSE, ![i].start_time = 0,
                           ![i].tone_start = 0],
     dot |-> r.dot,
     buf |-> IF st.len < MORSE_BUFFER_SIZE
             THEN [st.buf EXCEPT ![st.len] = r.symbol, ![st.len + 1] = NUL]
             ELSE st.buf,
     len |-> IF st.len < MORSE_BUFFER_SIZE THEN st.len + 1 ELSE st.len,
     dec |-> Append(st.dec, [slot |-> i, start_time |-> st.tr[i].start_time,
                             tone_duration |-> tone_duration,
                             dot |-> st.dot, symbol |-> r.symbol])]

Release_StartsOver(st, i, tone_duration, r) ==
    [tr  |-> [st.tr EXCEPT ![i].active = FALSE, ![i].start_time = 0,
                           ![i].tone_start = 0],
     dot |-> r.dot,
     buf |-> IF st.len < MORSE_BUFFER_SIZE - 1
             THEN [st.buf EXCEPT ![st.len] = r.symbol, ![st.len + 1] = NUL]
             ELSE [st.buf EXCEPT ![0] = r.symbol, ![1] = NUL],
     len |-> IF st.len < MORSE_BUFFER_SIZE - 1 THEN st.len + 1 ELSE 1,
     dec |-> Append(st.dec, [slot |-> i, start_time |-> st.tr[i].start_time,
                             tone_duration |-> tone_duration,
                             dot |-> st.dot, symbol |-> r.symbol])]

\* lines 594-600 for slot i, the decoder having returned r
Release(st, i, tone_duration, r) ==
    [tr  |-> [st.tr EXCEPT ![i].active = FALSE, ![i].start_time = 0,
                           ![i].tone_start = 0],
     dot |-> r.dot,
     buf |-> IF st.len < MORSE_BUFFER_SIZE - 1
             THEN [st.buf EXCEPT ![st.len] = r.symbol, ![st.len + 1] = NUL]
             ELSE st.buf,
     len |-> IF st.len < MORSE_BUFFER_SIZE - 1 THEN st.len + 1 ELSE st.len,
     dec |-> Append(st.dec, [slot |-> i, start_time |-> st.tr[i].start_time,
                             tone_duration |-> tone_duration,
                             dot |-> st.dot, symbol |-> r.symbol])]

\* lines 585-600 for slot i; st = [tr, dot, buf, len, dec]
Deactivate(st, i) ==
    Release(st, i, ToneDuration(st.tr[i]), Decode(st.dot, ToneDuration(st.tr[i])))

RECURSIVE UpdateStates_KeepsLastSeen(_, _, _)
UpdateStates_KeepsLastSeen(st, i, t) ==
    IF i >= MAX_TRACKED_SINES THEN st
    ELSE IF st.tr[i].start_time # 0 /\ ~st.tr[i].active
    THEN UpdateStates_KeepsLastSeen(
             IF ActivationDue(st.tr[i], t)
             THEN [st EXCEPT !.tr[i].active = TRUE, !.tr[i].tone_start = t]
             ELSE st,
             i + 1, t)
    ELSE IF st.tr[i].active /\ ReleaseDue(st.tr[i], t)
    THEN UpdateStates_KeepsLastSeen(Deactivate(st, i), i + 1, t)
    ELSE UpdateStates_KeepsLastSeen(st, i + 1, t)

\* the loop of lines 576-603 from slot i on
RECURSIVE UpdateStates(_, _, _)
UpdateStates(st, i, t) ==
    IF i >= MAX_TRACKED_SINES THEN st
    ELSE IF st.tr[i].start_time # 0 /\ ~st.tr[i].active
    THEN UpdateStates(
             IF ActivationDue(st.tr[i], t)
             THEN [st EXCEPT !.tr[i].active = TRUE, !.tr[i].last_seen = t,
                             !.tr[i].tone_start = t]
             ELSE st,
             i + 1, t)
    ELSE IF st.tr[i].active /\ ReleaseDue(st.tr[i], t)
    THEN UpdateStates(Deactivate(st, i), i + 1, t)
    ELSE UpdateStates(st, i + 1, t)

(***************************************************************************)
(* audio_callback (lines 471-604) on the transform `raw` at tick t.        *)
(***************************************************************************)
\* the globals after the callback, from the results of its stages
Commit(raw, t, top, matched, final) ==
    /\ now' = t
    /\ out' = raw
    /\ avg_powers' = NextAvgPowers(raw)
    /\ magnitudes' = NextMagnitudes(raw)
    /\ top_indices' = top
    /\ calls' = matched.calls
    /\ tracks' = final.tr
    /\ last_match' = matched.lm
    /\ unbroken' = matched.ub
    /\ decoded' = final.dec
    /\ estimated_dot_ms' = final.dot
    /\ morse_buffer' = final.buf
    /\ morse_length' = final.len
    /\ UNCHANGED settings

Tracked(raw, t, top, matched) ==
    Commit(raw, t, top, matched,
           UpdateStates([tr  |-> matched.tr, dot |-> estimated_dot_ms,
                         buf |-> morse_buffer, len |-> morse_length,
                         dec |-> << >>], 0, t))

Extracted(raw, t, powers, top) ==
    Tracked(raw, t, top,
            MatchPeaks(powers, top, 0,
                       [tr |-> tracks, lm |-> last_match, ub |-> unbroken,
                        calls |-> << >>], t))

Filtered(raw, t, powers) == Extracted(raw, t, powers, TopIndices(powers))

\* the peaks taken from the powers as they are before the squelch
audio_callback_PeaksBeforeSquelch(raw, t) == Filtered(raw, t, NextAvgPowers(raw))

audio_callback(raw, t) == Filtered(raw, t, FilteredPowers(raw))

(***************************************************************************)
(* The environment: the transforms and the callback times.                 *)
(***************************************************************************)
ToneBinA == 3

ToneBinB == 8

Silence == [i \in Bins |-> 0]

\* a windowed tone centred on bin b: the peak and a quarter of it on each side
Tone(b, peak) ==
    [i \in Bins |-> IF i = b THEN peak
                    ELSE IF Abs(i - b) = 1 THEN peak \div 4
                    ELSE 0]

Mixed(f, g) == [i \in Bins |-> f[i] + g[i]]

FullScaleA == Tone(ToneBinA, max_possible_power)

FullScaleB == Tone(ToneBinB, max_possible_power)

InputSpectra == {Silence, FullScaleA, FullScaleB, Mixed(FullScaleA, FullScaleB)}

\* ms between two callbacks
FrameSteps == {120}

\* persistence_threshold_ms after load_config: the default, or a value of sinDet.cfg
DefaultPersistence == 200

LoadedPersistence == {120, DefaultPersistence}

\* all of the program but its clock, its tracks and their history, before the
\* first callback
Idle ==
    /\ out = Silence
    /\ avg_powers = [i \in Bins |-> 0]
    /\ magnitudes = [i \in Bins |-> 0]
    /\ top_indices = [p \in Slots |-> -1]
    /\ calls = << >>
    /\ decoded = << >>
    /\ estimated_dot_ms = DFromInt(InitialDotMs)
    /\ morse_buffer = [k \in 0 .. (MORSE_BUFFER_SIZE - 1) |-> NUL]
    /\ morse_length = 0
    /\ lock = "free"
    /\ cb_pc = "idle"
    /\ cb_powers = [i \in Bins |-> 0]
    /\ ui_pc = 1
    /\ snapshot = [i \in Slots |-> EmptyTrack]
    /\ morse_snapshot = [k \in 0 .. (MORSE_BUFFER_SIZE - 1) |-> NUL]
    /\ dot_snapshot = DFromInt(InitialDotMs)
    /\ points = [i \in Bins |-> 0]
    /\ read_at = [tracks |-> 0, morse |-> 0, magnitudes |-> 0]

\* the program before the first callback and the first pass of the main loop:
\* zero-initialised statics; the loop writes each of its copies before it uses it
Started ==
    /\ now = 0
    /\ tracks = [i \in Slots |-> EmptyTrack]
    /\ last_match = [i \in Slots |-> 0]
    /\ unbroken = [i \in Slots |-> TRUE]
    /\ Idle

\* load_config has returned and the gain is at its default
Configured ==
    /\ input_gain_db = 0
    /\ config_file = << >>
    /\ load_pc = "read"

Boot ==
    /\ Started
    /\ bandpass_low_hz = SINE_WAVE_MIN_HZ
    /\ bandpass_high_hz = SINE_WAVE_MAX_HZ
    /\ averaging_enabled = FALSE
    /\ squelch_enabled = FALSE
    /\ squelch_threshold = 2

Init ==
    /\ Boot
    /\ persistence_threshold_ms \in LoadedPersistence
    /\ keyed_frames = 0
    /\ Configured

Frame ==
    /\ keyed_frames = 0
    /\ \E raw \in InputSpectra, dt \in FrameSteps :
          /\ now + dt <= MaxTime
          /\ audio_callback(raw, now + dt)
          /\ UNCHANGED <<keyed_frames, threads, startup>>

\* The key handlers run in the main loop; the model takes a key press between
\* two callbacks.
\* SDLK_UP (line 207); the model stops at MaxPersistence
KeyUp ==
    /\ persistence_threshold_ms + 50 <= MaxPersistence
    /\ persistence_threshold_ms' = persistence_threshold_ms + 50
    /\ UNCHANGED <<now, out, avg_powers, magnitudes, top_indices, calls, tracks,
                   last_match, unbroken, decoded, estimated_dot_ms, morse_buffer,
                   morse_length,
                   bandpass_low_hz, bandpass_high_hz, averaging_enabled,
                   squelch_enabled, squelch_threshold, keyed_frames, threads, startup>>

\* SDLK_DOWN (lines 209-211)
KeyDown ==
    /\ persistence_threshold_ms > 50
    /\ persistence_threshold_ms' = persistence_threshold_ms - 50
    /\ UNCHANGED <<now, out, avg_powers, magnitudes, top_indices, calls, tracks,
                   last_match, unbroken, decoded, estimated_dot_ms, morse_buffer,
                   morse_length,
                   bandpass_low_hz, bandpass_high_hz, averaging_enabled,
                   squelch_enabled, squelch_threshold, keyed_frames, threads, startup>>

Next == Frame \/ KeyUp \/ KeyDown

Spec == Init /\ [][Next]_vars

(***************************************************************************)
(* A keyed tone: one tone after another, each heard by keyed_frames         *)
(* callbacks, the next one starting once the track of the last is released. *)
(* Callbacks come every 2048 samples at 44100 Hz: every 46 ms.              *)
(***************************************************************************)
FramePeriod == 46

MaxKeyedTime == 110000

KeyedFrames == 7 .. 11

\* the key is down in the callback at tick t
KeyIsDown(t) ==
    \/ tracks[0].start_time = 0
    \/ t - tracks[0].start_time < keyed_frames * FramePeriod

InitDot ==
    /\ Boot
    /\ persistence_threshold_ms = DefaultPersistence
    /\ keyed_frames \in KeyedFrames
    /\ Configured

KeyedFrame ==
    /\ keyed_frames > 0
    /\ now + FramePeriod <= MaxKeyedTime
    /\ audio_callback(IF KeyIsDown(now + FramePeriod) THEN FullScaleA ELSE Silence,
                      now + FramePeriod)
    /\ UNCHANGED <<keyed_frames, threads, startup>>

NextDot == KeyedFrame

SpecDot == InitDot /\ [][NextDot]_vars

(***************************************************************************)
(* Properties of the track manager.                                        *)
(***************************************************************************)
IsEmpty(track) == track.start_time = 0 /\ ~track.active /\ track.tone_start = 0

IsPending(track) == track.start_time # 0 /\ ~track.active /\ track.tone_start = 0

IsActive(track) == track.active /\ track.start_time # 0 /\ track.tone_start # 0

\* a step that is a callback
IsFrame == now' # now

MixedAB == Mixed(FullScaleA, FullScaleB)

\* C1: a track becomes active only if its tone's peaks were matched over an
\* interval, from its first matching frame (start_time) to its last, of at least
\* persistence_threshold_ms; a tone seen for less never activates.
C1_ShortToneNeverActivates ==
    [][\A i \in Slots :
          (~tracks[i].active /\ tracks'[i].active)
          => last_match'[i] - tracks'[i].start_time >= persistence_threshold_ms']_vars

\* C2: when the first frame holds two simultaneous full-scale tones, 5 bins and
\* more than FREQUENCY_TOLERANCE apart, two distinct slots are non-empty after it,
\* each refreshed in that frame.
C2_TwoTonesTwoTracks ==
    [][(now = 0 /\ IsFrame /\ out' = MixedAB)
       => \E i, j \in Slots :
             /\ i # j
             /\ tracks'[i].start_time # 0 /\ tracks'[i].last_seen = now'
             /\ tracks'[j].start_time # 0 /\ tracks'[j].last_seen = now']_vars

\* C3: every slot is empty, pending or active, and in only one of these states.
C3_TrackStates ==
    \A i \in Slots :
        /\ IsEmpty(tracks[i]) \/ IsPending(tracks[i]) \/ IsActive(tracks[i])
        /\ ~(IsEmpty(tracks[i]) /\ IsPending(tracks[i]))
        /\ ~(IsEmpty(tracks[i]) /\ IsActive(tracks[i]))
        /\ ~(IsPending(tracks[i]) /\ IsActive(tracks[i]))

\* a slot emptied by a release, next to an active slot and to a slot never used
C3_Witness ==
    \E i, j, k \in Slots :
        /\ IsEmpty(tracks[i]) /\ tracks[i].last_seen # 0
        /\ IsActive(tracks[j])
        /\ tracks[k] = EmptyTrack

\* last_seen of slot i after the matching step of the callback being taken
SeenAfterMatching(i) ==
    IF last_match'[i] = now' THEN now' ELSE tracks[i].last_seen

\* C4: in a callback a slot that was not active becomes active exactly when it
\* holds a pending track with now - start_time >= persistence_threshold_ms, and
\* then tone_start is now.
C4_ActivationBoundary ==
    [][IsFrame =>
        \A i \in Slots :
            ~tracks[i].active =>
                /\ tracks'[i].active <=>
                      (/\ tracks'[i].start_time # 0
                       /\ now' - tracks'[i].start_time >= persistence_threshold_ms)
                /\ tracks'[i].active => tracks'[i].tone_start = now']_vars

\* a track activated by the last callback with elapsed equal to the threshold
C4_Witness ==
    \E i \in Slots :
        /\ tracks[i].active
        /\ tracks[i].tone_start = now
        /\ now - tracks[i].start_time = persistence_threshold_ms

\* C5: in a callback an active track becomes inactive exactly when, after the
\* matching step, now - last_seen >= persistence_threshold_ms; it has then gone
\* unmatched for at least that long, and its slot is reset to empty.
C5_DeactivationBoundary ==
    [][IsFrame =>
        \A i \in Slots :
            tracks[i].active =>
                /\ ~tracks'[i].active <=>
                      now' - SeenAfterMatching(i) >= persistence_threshold_ms
                /\ ~tracks'[i].active =>
                      /\ now' - last_match'[i] >= persistence_threshold_ms
                      /\ IsEmpty(tracks'[i])]_vars

\* a track released by the last callback with elapsed equal to the threshold
C5_Witness ==
    \E k \in DOMAIN decoded :
        /\ IsEmpty(tracks[decoded[k].slot])
        /\ now - tracks[decoded[k].slot].last_seen = persistence_threshold_ms

DecoderRuns(log, i) == Cardinality({k \in DOMAIN log : log[k].slot = i})

\* C6: in a callback the decoder runs once for each track that goes from active
\* to inactive and for no other slot, on last_seen - tone_start as they were
\* before the reset, and morse_length grows by the number of runs up to
\* MORSE_BUFFER_SIZE - 1; outside a callback the symbols do not change.
C6_SymbolEmission ==
    [][/\ IsFrame =>
            /\ \A i \in Slots :
                  DecoderRuns(decoded', i) =
                      IF tracks[i].active /\ ~tracks'[i].active THEN 1 ELSE 0
            /\ \A k \in DOMAIN decoded' :
                  decoded'[k].tone_duration =
                      SeenAfterMatching(decoded'[k].slot)
                      - tracks[decoded'[k].slot].tone_start
            /\ morse_length' =
                  IF morse_length + Len(decoded') < MORSE_BUFFER_SIZE - 1
                  THEN morse_length + Len(decoded')
                  ELSE MORSE_BUFFER_SIZE - 1
       /\ ~IsFrame => morse_length' = morse_length /\ morse_buffer' = morse_buffer]_vars

\* two tracks released by one callback, both symbols stored
C6_Witness == Len(decoded) = 2 /\ morse_length = 2

(***************************************************************************)
(* Properties of the tone-duration decoder.                                *)
(***************************************************************************)
\* how long the tone decoded[k] was present: from the first frame that matched
\* it to the last one
Presence(k) == last_match[decoded[k].slot] - decoded[k].start_time

\* the tone decoded[k] was matched by every frame from its first to its last
Keyed(k) == unbroken[decoded[k].slot]

InitialDot == DFromInt(InitialDotMs)

\* C7: with the estimate at 120 ms, a tone present for 120 ms is emitted as '.'
\* and a tone present for 360 ms is emitted as '-'.
C7_EndToEnd ==
    \A k \in DOMAIN decoded :
        (decoded[k].dot = InitialDot /\ Keyed(k)) =>
            /\ Presence(k) = InitialDotMs => decoded[k].symbol = "."
            /\ Presence(k) = 3 * InitialDotMs => decoded[k].symbol = "-"

\* C8: every decoded tone is '.' if its duration is less than twice the estimate
\* read before the update and '-' otherwise, equality included.
C8_ClassificationRule ==
    \A k \in DOMAIN decoded :
        decoded[k].symbol =
            IF DLess(DFromInt(decoded[k].tone_duration),
                     DAdd(decoded[k].dot, decoded[k].dot))
            THEN "." ELSE "-"

\* a tone of exactly twice the estimate, decoded as long
C8_Witness ==
    \E k \in DOMAIN decoded :
        /\ decoded[k].dot = InitialDot
        /\ decoded[k].tone_duration = 2 * InitialDotMs
        /\ decoded[k].symbol = "-"

\* 0.8 * dot + 0.2 * unit in double arithmetic
Blend(dot, unit) ==
    DAdd(DMul(DDivInt(DFromInt(8), 10), dot), DMul(DDivInt(DFromInt(2), 10), unit))

\* the estimate after the decoder run entry
Updated(entry) ==
    IF entry.symbol = "."
    THEN Blend(entry.dot, DFromInt(entry.tone_duration))
    ELSE Blend(entry.dot, DDivInt(DFromInt(entry.tone_duration), 3))

\* C9: the estimate starts at 120 ms; every decoder run takes it from dot_ms to
\* 0.8*dot_ms + 0.2*d after a short symbol and to 0.8*dot_ms + 0.2*(d/3) after a
\* long one; nothing else changes it.
C9_EstimateUpdate ==
    /\ estimated_dot_ms = InitialDot
    /\ [][/\ IsFrame =>
               /\ \A k \in DOMAIN decoded' :
                     decoded'[k].dot =
                         IF k = 1 THEN estimated_dot_ms ELSE Updated(decoded'[k - 1])
               /\ estimated_dot_ms' =
                     IF decoded' = << >> THEN estimated_dot_ms
                     ELSE Updated(decoded'[Len(decoded')])
          /\ ~IsFrame => estimated_dot_ms' = estimated_dot_ms]_vars

\* a short tone and then a long tone decoded by one callback, both with a duration
C9_Witness ==
    /\ Len(decoded) = 2
    /\ decoded[1].symbol = "." /\ decoded[1].tone_duration > 0
    /\ decoded[2].symbol = "-" /\ decoded[2].tone_duration > 0
    /\ estimated_dot_ms # decoded[2].dot

\* 2^-40 ms
Eps == [m |-> <<0, 0, 0, 0, 16>>, e |-> -92]

FarBelow(x, y) == DLess(DAdd(x, Eps), y)

\* the estimate after the short tone entry, given the estimate dot before it and
\* the estimate next after it
Converges(dot, d, next) ==
    /\ FarBelow(dot, d) => ~DLess(next, dot) /\ DLess(next, d)
    /\ FarBelow(d, dot) => ~DLess(dot, next) /\ DLess(d, next)
    /\ (~FarBelow(dot, d) /\ ~FarBelow(d, dot))
          => ~FarBelow(next, d) /\ ~FarBelow(d, next)

engine == <<now, out, avg_powers, magnitudes, top_indices, calls, tracks,
            last_match, unbroken, decoded, estimated_dot_ms, morse_buffer,
            morse_length>>

BAND_STEP == 10

\* SDLK_z (lines 216-220)
KeyZ ==
    /\ bandpass_low_hz' =
          IF bandpass_low_hz > SINE_WAVE_MIN_HZ
          THEN IF bandpass_low_hz - BAND_STEP < SINE_WAVE_MIN_HZ
               THEN SINE_WAVE_MIN_HZ
               ELSE bandpass_low_hz - BAND_STEP
          ELSE bandpass_low_hz
    /\ UNCHANGED <<engine, persistence_threshold_ms, bandpass_high_hz,
                   averaging_enabled, squelch_enabled, squelch_threshold,
                   keyed_frames, threads, startup>>

KeyX_UpToHigh ==
    /\ bandpass_low_hz' =
          IF bandpass_low_hz < bandpass_high_hz
          THEN bandpass_low_hz + BAND_STEP
          ELSE bandpass_low_hz
    /\ UNCHANGED <<engine, persistence_threshold_ms, bandpass_high_hz,
                   averaging_enabled, squelch_enabled, squelch_threshold,
                   keyed_frames, threads, startup>>

\* SDLK_x (lines 221-224)
KeyX ==
    /\ bandpass_low_hz' =
          IF bandpass_low_hz < bandpass_high_hz - BAND_STEP
          THEN bandpass_low_hz + BAND_STEP
          ELSE bandpass_low_hz
    /\ UNCHANGED <<engine, persistence_threshold_ms, bandpass_high_hz,
                   averaging_enabled, squelch_enabled, squelch_threshold,
                   keyed_frames, threads, startup>>

\* SDLK_c (lines 225-228)
KeyC ==
    /\ bandpass_high_hz' =
          IF bandpass_high_hz > bandpass_low_hz + BAND_STEP
          THEN bandpass_high_hz - BAND_STEP
          ELSE bandpass_high_hz
    /\ UNCHANGED <<engine, persistence_threshold_ms, bandpass_low_hz,
                   averaging_enabled, squelch_enabled, squelch_threshold,
                   keyed_frames, threads, startup>>

\* SDLK_v (lines 229-233)
KeyV ==
    /\ bandpass_high_hz' =
          IF bandpass_high_hz < SINE_WAVE_MAX_HZ
          THEN IF bandpass_high_hz + BAND_STEP > SINE_WAVE_MAX_HZ
               THEN SINE_WAVE_MAX_HZ
               ELSE bandpass_high_hz + BAND_STEP
          ELSE bandpass_high_hz
    /\ UNCHANGED <<engine, persistence_threshold_ms, bandpass_low_hz,
                   averaging_enabled, squelch_enabled, squelch_threshold,
                   keyed_frames, threads, startup>>

\* the cutoffs of the model: the low cutoff just below and just above tone A,
\* the high cutoff just above and just below tone B
LowCuts ==
    {f \in {BinFreq(ToneBinA) \div FFT_SIZE - k * BAND_STEP : k \in -1 .. 1} :
        f >= SINE_WAVE_MIN_HZ}

HighCuts ==
    {f \in {BinFreq(ToneBinB) \div FFT_SIZE + k * BAND_STEP : k \in -1 .. 1} :
        f <= SINE_WAVE_MAX_HZ}

MaxMaskTime == 480

MaskSpectra == {Silence, FullScaleA, FullScaleB}

\* sinDet.cfg holds the cutoffs, the threshold and the averaging switch
InitMask ==
    /\ Started
    /\ bandpass_low_hz \in LowCuts
    /\ bandpass_high_hz \in HighCuts
    /\ averaging_enabled \in BOOLEAN
    /\ squelch_enabled = FALSE
    /\ squelch_threshold = 2
    /\ persistence_threshold_ms = 120
    /\ keyed_frames = 0
    /\ Configured

MaskFrame ==
    \E raw \in MaskSpectra, dt \in FrameSteps :
        /\ now + dt <= MaxMaskTime
        /\ audio_callback(raw, now + dt)
        /\ UNCHANGED <<keyed_frames, threads, startup>>

NextMask ==
    \/ MaskFrame
    \/ KeyZ /\ bandpass_low_hz' \in LowCuts \ {bandpass_low_hz}
    \/ KeyX /\ bandpass_low_hz' \in LowCuts \ {bandpass_low_hz}
    \/ KeyC /\ bandpass_high_hz' \in HighCuts \ {bandpass_high_hz}
    \/ KeyV /\ bandpass_high_hz' \in HighCuts \ {bandpass_high_hz}

SpecMask == InitMask /\ [][NextMask]_vars

InBand(freq) == Hz(bandpass_low_hz) <= freq /\ freq <= Hz(bandpass_high_hz)

SQUELCH_STEP == 1

SQUELCH_MAX == 100

\* SDLK_s (lines 240-245); the log line it adds is not part of the engine
KeyS ==
    /\ squelch_enabled' = ~squelch_enabled
    /\ UNCHANGED <<engine, persistence_threshold_ms, bandpass_low_hz,
                   bandpass_high_hz, averaging_enabled, squelch_threshold,
                   keyed_frames, threads, startup>>

\* SDLK_d (lines 246-250)
KeyD ==
    /\ squelch_threshold' =
          IF squelch_threshold > 0
          THEN IF squelch_threshold - SQUELCH_STEP < 0 THEN 0
               ELSE squelch_threshold - SQUELCH_STEP
          ELSE squelch_threshold
    /\ UNCHANGED <<engine, persistence_threshold_ms, bandpass_low_hz,
                   bandpass_high_hz, averaging_enabled, squelch_enabled,
                   keyed_frames, threads, startup>>

\* SDLK_f (lines 251-255)
KeyF ==
    /\ squelch_threshold' =
          IF squelch_threshold < SQUELCH_MAX
          THEN IF squelch_threshold + SQUELCH_STEP > SQUELCH_MAX THEN SQUELCH_MAX
               ELSE squelch_threshold + SQUELCH_STEP
          ELSE squelch_threshold
    /\ UNCHANGED <<engine, persistence_threshold_ms, bandpass_low_hz,
                   bandpass_high_hz, averaging_enabled, squelch_enabled,
                   keyed_frames, threads, startup>>

DefaultSquelch == 2

\* the thresholds of the model: the lowest ones up to the default, and the highest
SquelchLevels == (0 .. DefaultSquelch) \cup {SQUELCH_MAX - SQUELCH_STEP, SQUELCH_MAX}

\* tone A at the least power, at full scale, and with the gain turned up
FaintA == Tone(ToneBinA, 1)

LoudA == Tone(ToneBinA, 4 * max_possible_power)

SquelchSpectra == {Silence, FaintA, FullScaleA, LoudA}

MaxSquelchTime == 480

\* the defaults, or sinDet.cfg with squelch on near the top
InitSquelch ==
    /\ Started
    /\ bandpass_low_hz = SINE_WAVE_MIN_HZ
    /\ bandpass_high_hz = SINE_WAVE_MAX_HZ
    /\ averaging_enabled = FALSE
    /\ \/ squelch_enabled = FALSE /\ squelch_threshold = DefaultSquelch
       \/ squelch_enabled = TRUE /\ squelch_threshold = SQUELCH_MAX - SQUELCH_STEP
    /\ persistence_threshold_ms = 120
    /\ keyed_frames = 0
    /\ Configured

SquelchFrame ==
    \E raw \in SquelchSpectra, dt \in FrameSteps :
        /\ now + dt <= MaxSquelchTime
        /\ audio_callback(raw, now + dt)
        /\ UNCHANGED <<keyed_frames, threads, startup>>

NextSquelch ==
    \/ SquelchFrame
    \/ KeyS
    \/ KeyD /\ squelch_threshold' \in SquelchLevels \ {squelch_threshold}
    \/ KeyF /\ squelch_threshold' \in SquelchLevels \ {squelch_threshold}

SpecSquelch == InitSquelch /\ [][NextSquelch]_vars

\* C12: with squelch enabled at threshold 1.0 no callback has a qualifying peak:
\* it calls update_track for none, and creates and refreshes no track.
C12_SquelchAtMaximum ==
    [][(IsFrame /\ squelch_enabled /\ squelch_threshold = SQUELCH_MAX) =>
          /\ calls' = << >>
          /\ \A i \in Slots : last_match'[i] # now']_vars

\* the callback on raw at tick t as it runs with squelch disabled
Unsquelched(raw, t) ==
    [powers |-> NextAvgPowers(raw),
     magnitudes |-> [i \in Bins |-> Norm(NextAvgPowers(raw)[i])],
     top |-> TopIndices(NextAvgPowers(raw)),
     matched |-> MatchPeaks(NextAvgPowers(raw), TopIndices(NextAvgPowers(raw)), 0,
                            [tr |-> tracks, lm |-> last_match, ub |-> unbroken,
                             calls |-> << >>], t)]

StatesAfter(matched, t) ==
    UpdateStates([tr |-> matched.tr, dot |-> estimated_dot_ms,
                  buf |-> morse_buffer, len |-> morse_length, dec |-> << >>], 0, t)

SameAs(u, final) ==
    /\ avg_powers' = u.powers
    /\ magnitudes' = u.magnitudes
    /\ top_indices' = u.top
    /\ calls' = u.matched.calls
    /\ tracks' = final.tr
    /\ estimated_dot_ms' = final.dot
    /\ morse_buffer' = final.buf
    /\ morse_length' = final.len
    /\ decoded' = final.dec

\* C13: a callback that runs with squelch enabled at threshold 0.0 leaves the
\* powers, magnitudes, peaks, tracks and symbols that it leaves, from the same
\* state and on the same input, with squelch disabled.
C13_SquelchAtZero ==
    [][(IsFrame /\ squelch_enabled /\ squelch_threshold = 0) =>
          SameAs(Unsquelched(out', now'),
                 StatesAfter(Unsquelched(out', now').matched, now'))]_vars

\* squelch enabled at 0.0 and the faintest tone heard and tracked
C13_Witness ==
    /\ squelch_enabled /\ squelch_threshold = 0
    /\ out = FaintA
    /\ \E i \in Slots : tracks[i].start_time # 0 /\ last_match[i] = now

(***************************************************************************)
(* The symbol buffer (lines 67-68 and 594-597).                            *)
(***************************************************************************)
BufferFull == morse_length = MORSE_BUFFER_SIZE - 1

\* C14: morse_length is at most MORSE_BUFFER_SIZE - 1 and morse_buffer[morse_length]
\* is the terminating NUL; once the buffer holds MORSE_BUFFER_SIZE - 1 symbols no
\* step changes its contents or its length, however many symbols are decoded.
C14_BufferBound ==
    /\ [](morse_length \in 0 .. MORSE_BUFFER_SIZE - 1 /\ morse_buffer[morse_length] = NUL)
    /\ [][BufferFull => morse_buffer' = morse_buffer /\ morse_length' = morse_length]_vars

\* the decoder has run before this callback and twice in it, which is more
\* symbols than the buffer holds
C14_Witness ==
    /\ BufferFull
    /\ Len(decoded) = 2
    /\ decoded[1].dot # InitialDot

\* C15: no step makes morse_length smaller or changes a stored symbol, so the
\* buffer before a step is a prefix of the buffer after it.
C15_AppendOnly ==
    [][/\ morse_length' >= morse_length
       /\ \A k \in 0 .. morse_length - 1 : morse_buffer'[k] = morse_buffer[k]]_vars

\* a second symbol stored behind one of an earlier callback
C15_Witness ==
    /\ morse_length = 2
    /\ Len(decoded) = 1
    /\ decoded[1].dot # InitialDot
    /\ morse_buffer[1] = decoded[1].symbol

(***************************************************************************)
(* A frame without power (lines 497-499 and 556).                          *)
(***************************************************************************)
\* the callback that makes this step finds no power left after its filters
Degenerate == IsFrame /\ TotalPower(FilteredPowers(out')) = 0

\* C19: a callback whose filtered total power is zero calls update_track for no
\* peak: it creates no track and leaves every freq and purity as it was; the
\* tracks change only as the state-update step changes them, and last_seen only
\* where that step activates a pending track.
C19_DegenerateFrame ==
    [][Degenerate =>
          /\ calls' = << >>
          /\ last_match' = last_match
          /\ tracks' = StatesAfter([tr |-> tracks], now').tr
          /\ \A i \in Slots :
                /\ tracks[i].start_time = 0 => tracks'[i].start_time = 0
                /\ tracks'[i].freq = tracks[i].freq
                /\ tracks'[i].purity = tracks[i].purity
                /\ tracks'[i].last_seen # tracks[i].last_seen =>
                      /\ IsPending(tracks[i]) /\ IsActive(tracks'[i])
                      /\ tracks'[i].last_seen = now']_vars

\* a tone squelched to nothing in the callback that activated its track
C19_Witness ==
    /\ squelch_enabled
    /\ out = FaintA
    /\ \A i \in Bins : magnitudes[i] = 0
    /\ calls = << >>
    /\ \E i \in Slots : tracks[i].active /\ tracks[i].tone_start = now

(***************************************************************************)
(* The band-pass keys alone, from the defaults of lines 87-88.  The upper  *)
(* cutoff is followed over the BandWindow Hz below SINE_WAVE_MAX_HZ, the   *)
(* lower cutoff over its whole range.                                      *)
(***************************************************************************)
BandWindow == 50

InitBand ==
    /\ Boot
    /\ persistence_threshold_ms = DefaultPersistence
    /\ keyed_frames = 0
    /\ Configured

NextBand ==
    \/ KeyZ
    \/ KeyX
    \/ KeyC /\ bandpass_high_hz' >= SINE_WAVE_MAX_HZ - BandWindow
    \/ KeyV

SpecBand == InitBand /\ [][NextBand]_vars

\* C20: from the default cutoffs, after any Z, X, C and V key presses
\* SINE_WAVE_MIN_HZ <= bandpass_low_hz < bandpass_high_hz <= SINE_WAVE_MAX_HZ.
C20_BandPassInvariant ==
    /\ SINE_WAVE_MIN_HZ <= bandpass_low_hz
    /\ bandpass_low_hz < bandpass_high_hz
    /\ bandpass_high_hz <= SINE_WAVE_MAX_HZ

\* both cutoffs moved by the keys until they are one step apart
C20_Witness ==
    /\ bandpass_low_hz > SINE_WAVE_MIN_HZ
    /\ bandpass_high_hz < SINE_WAVE_MAX_HZ
    /\ bandpass_high_hz - bandpass_low_hz = BAND_STEP

(***************************************************************************)
(* The two threads.  SDL runs audio_callback on its audio thread with the  *)
(* device lock held; SDL_LockAudioDevice in the main loop takes the same   *)
(* lock.  The callback is taken in its two stages: the filter stage, which *)
(* writes avg_powers and magnitudes (lines 479-522), and the peak, track   *)
(* and decoder stage, which reads the clock and writes the rest (lines     *)
(* 524-603).  log_entries is used by the main loop only and is not kept.   *)
(***************************************************************************)
VIS_HEIGHT == 150

\* (int)(magnitudes[i] * VIS_HEIGHT)
BarHeight(magnitude) == (magnitude * VIS_HEIGHT) \div max_possible_power

\* strncpy(morse_snapshot, morse_buffer, MORSE_BUFFER_SIZE) and the NUL of line 340
StrnCopy(buf) ==
    [k \in 0 .. (MORSE_BUFFER_SIZE - 1) |->
        IF k = MORSE_BUFFER_SIZE - 1 \/ (\E j \in 0 .. k : buf[j] = NUL) THEN NUL
        ELSE buf[k]]

I(op, what, to) == [op |-> op, what |-> what, to |-> to]

\* one pass of the main loop (lines 198-428), instruction by instruction
UILoop ==
    << I("branch", "", 6),         \* 200-204: an S key event, or none
       I("toggle", "", 0),         \* 241
       I("lock", "", 0),           \* 608, add_log_line called at line 245
       I("copy", "log", 0),        \* 609-625
       I("unlock", "", 0),         \* 626
       I("lock", "", 0),           \* 261
       I("copy", "tracks", 0),     \* 262
       I("unlock", "", 0),         \* 263
       I("branch", "", 13),        \* 266-287: a track was detected or lost, or none
       I("lock", "", 0),           \* 608, add_log_line called at lines 271 and 279
       I("copy", "log", 0),        \* 609-625
       I("unlock", "", 0),         \* 626
       I("render", "", 0),         \* 290-334: render_text
       I("lock", "", 0),           \* 338
       I("copy", "morse", 0),      \* 339-341
       I("unlock", "", 0),         \* 342
       I("render", "", 0),         \* 343-347: render_text
       I("lock", "", 0),           \* 630, prune_expired_logs called at line 351
       I("copy", "log", 0),        \* 631-641
       I("unlock", "", 0),         \* 642
       I("render", "", 0),         \* 352-366: render_text
       I("lock", "", 0),           \* 369
       I("copy", "magnitudes", 0), \* 370-375
       I("unlock", "", 0),         \* 376
       I("render", "", 0),         \* 377-421: SDL_RenderDrawLines
       I("present", "", 0),        \* 425: SDL_RenderPresent
       I("delay", "", 0) >>        \* 427: SDL_Delay

Instr == UILoop[ui_pc]

Advance == ui_pc' = IF ui_pc = Len(UILoop) THEN 1 ELSE ui_pc + 1

audio == <<lock, cb_pc, cb_powers>>

copies == <<snapshot, morse_snapshot, dot_snapshot, points, read_at>>

UIBranch ==
    /\ Instr.op = "branch"
    /\ ui_pc' \in {ui_pc + 1, Instr.to}
    /\ UNCHANGED <<engine, settings, keyed_frames, startup, audio, copies>>

\* squelch_enabled = !squelch_enabled
UIToggle ==
    /\ Instr.op = "toggle"
    /\ squelch_enabled' = ~squelch_enabled
    /\ Advance
    /\ UNCHANGED <<engine, persistence_threshold_ms, bandpass_low_hz,
                   bandpass_high_hz, averaging_enabled, squelch_threshold,
                   keyed_frames, startup, audio, copies>>

UILock_NoWait ==
    /\ Instr.op = "lock"
    /\ lock' = "ui"
    /\ Advance
    /\ UNCHANGED <<engine, settings, keyed_frames, startup, cb_pc, cb_powers, copies>>

\* SDL_LockAudioDevice
UILock ==
    /\ Instr.op = "lock"
    /\ lock = "free"
    /\ lock' = "ui"
    /\ Advance
    /\ UNCHANGED <<engine, settings, keyed_frames, startup, cb_pc, cb_powers, copies>>

UICopy ==
    /\ Instr.op = "copy"
    /\ snapshot' = IF Instr.what = "tracks" THEN tracks ELSE snapshot
    /\ morse_snapshot' = IF Instr.what = "morse" THEN StrnCopy(morse_buffer)
                         ELSE morse_snapshot
    /\ dot_snapshot' = IF Instr.what = "morse" THEN estimated_dot_ms ELSE dot_snapshot
    /\ points' = IF Instr.what = "magnitudes"
                 THEN [i \in Bins |-> BarHeight(magnitudes[i])]
                 ELSE points
    /\ read_at' = IF Instr.what = "log" THEN read_at
                  ELSE [read_at EXCEPT ![Instr.what] = now]
    /\ Advance
    /\ UNCHANGED <<engine, settings, keyed_frames, startup, audio>>

UIUnlock_Keeps ==
    /\ Instr.op = "unlock"
    /\ Advance
    /\ UNCHANGED <<engine, settings, keyed_frames, startup, audio, copies>>

\* SDL_UnlockAudioDevice
UIUnlock ==
    /\ Instr.op = "unlock"
    /\ lock' = "free"
    /\ Advance
    /\ UNCHANGED <<engine, settings, keyed_frames, startup, cb_pc, cb_powers, copies>>

\* render_text, SDL_RenderDrawLines, SDL_RenderPresent, SDL_Delay
UIRender ==
    /\ Instr.op \in {"render", "present", "delay"}
    /\ Advance
    /\ UNCHANGED <<engine, settings, keyed_frames, startup, audio, copies>>

MaxUITime == 360

\* SDL's audio thread takes the lock and calls audio_callback
CbEnter ==
    /\ cb_pc = "idle"
    /\ lock = "free"
    /\ \E dt \in FrameSteps : now + dt <= MaxUITime
    /\ lock' = "audio"
    /\ cb_pc' = "filter"
    /\ UNCHANGED <<engine, settings, keyed_frames, startup, cb_powers, ui_pc, copies>>

\* lines 479-522 on the transform raw
CbFilter ==
    /\ cb_pc = "filter"
    /\ \E raw \in {Silence, FullScaleA} :
          /\ out' = raw
          /\ avg_powers' = NextAvgPowers(raw)
          /\ magnitudes' = NextMagnitudes(raw)
          /\ cb_powers' = FilteredPowers(raw)
    /\ cb_pc' = "track"
    /\ UNCHANGED <<now, top_indices, calls, tracks, last_match, unbroken, decoded,
                   estimated_dot_ms, morse_buffer, morse_length, settings,
                   keyed_frames, startup, lock, ui_pc, copies>>

\* the globals after lines 524-603, from the results of the stages
CommitTracks(t, top, matched, final) ==
    /\ now' = t
    /\ top_indices' = top
    /\ calls' = matched.calls
    /\ tracks' = final.tr
    /\ last_match' = matched.lm
    /\ unbroken' = matched.ub
    /\ decoded' = final.dec
    /\ estimated_dot_ms' = final.dot
    /\ morse_buffer' = final.buf
    /\ morse_length' = final.len

TrackedAt(t, top, matched) == CommitTracks(t, top, matched, StatesAfter(matched, t))

ExtractedAt(t, top) ==
    TrackedAt(t, top,
              MatchPeaks(cb_powers, top, 0,
                         [tr |-> tracks, lm |-> last_match, ub |-> unbroken,
                          calls |-> << >>], t))

\* lines 524-603 at tick now + dt; the callback returns and SDL releases the lock
CbTrack ==
    /\ cb_pc = "track"
    /\ \E dt \in FrameSteps : ExtractedAt(now + dt, TopIndices(cb_powers))
    /\ cb_pc' = "idle"
    /\ lock' = "free"
    /\ UNCHANGED <<out, avg_powers, magnitudes, settings, keyed_frames, startup, cb_powers,
                   ui_pc, copies>>

InitUI ==
    /\ Boot
    /\ persistence_threshold_ms = 120
    /\ keyed_frames = 0
    /\ Configured

NextUI ==
    \/ UIBranch \/ UIToggle \/ UILock \/ UICopy \/ UIUnlock \/ UIRender
    \/ CbEnter \/ CbFilter \/ CbTrack

SpecUI == InitUI /\ [][NextUI]_vars

\* C16: when a redraw is presented, its copies of the tracks, of the symbol
\* buffer and dot estimate, and of the magnitudes were all taken from the state
\* left by one and the same callback.
C16_ConsistentSnapshot ==
    Instr.op = "present" =>
        /\ read_at.tracks = read_at.morse
        /\ read_at.morse = read_at.magnitudes

\* the main loop is at one of its copies of the state the callback writes
UIReads == Instr.op = "copy" /\ Instr.what # "log"

\* C17: the main loop copies tracks, morse_buffer, estimated_dot_ms and magnitudes
\* only while it holds the lock, and while it holds the lock no callback is under
\* way, so every copy is of a state that a whole callback has left.
C17_LockGuardedReads ==
    /\ [](lock = "ui" => cb_pc = "idle")
    /\ [][(UIReads /\ ui_pc' # ui_pc) =>
             /\ lock = "ui" /\ cb_pc = "idle"
             /\ snapshot' \in {snapshot, tracks}
             /\ points' \in {points, [i \in Bins |-> BarHeight(magnitudes[i])]}]_vars

\* the loop about to copy the magnitudes under the lock, a callback having run
\* since it copied the tracks
C17_Witness ==
    /\ lock = "ui"
    /\ Instr.op = "copy" /\ Instr.what = "magnitudes"
    /\ read_at.tracks < now
    /\ \E i \in Bins : magnitudes[i] # 0

\* C18: while the main loop holds the lock its next instruction is the copy or
\* the release, never a render call or SDL_Delay; it holds the lock for one copy
\* and then releases it, and does not hold it when a pass of the loop ends.
C18_LockNotHeldAcrossRendering ==
    /\ [](lock = "ui" => Instr.op \in {"copy", "unlock"})
    /\ [][(lock = "ui" /\ ui_pc' # ui_pc) =>
             \/ Instr.op = "copy" /\ UILoop[ui_pc'].op = "unlock" /\ lock' = "ui"
             \/ Instr.op = "unlock" /\ lock' = "free"]_vars

\* a callback under way while the main loop presents the frame
C18_Witness ==
    /\ Instr.op = "present"
    /\ cb_pc = "track"
    /\ lock = "audio"

(***************************************************************************)
(* The persistence keys (lines 206-211) and the loaded threshold.          *)
(***************************************************************************)
PERSISTENCE_STEP == 50

\* C21: after any UP and DOWN key presses persistence_threshold_ms is at least
\* 50 ms.
C21_PersistenceAtLeast50 == persistence_threshold_ms >= PERSISTENCE_STEP

(***************************************************************************)
(* load_config (lines 683-709).  A line of sinDet.cfg is pad characters    *)
(* that belong to no key, then the text key=value; ok says that the value  *)
(* text converts (%d, %lf).  fgets hands the line over in pieces of at     *)
(* most sizeof(line) - 1 characters, and sscanf matches a key only at the  *)
(* start of a piece.  Cutoffs are in Hz, the squelch threshold in          *)
(* hundredths, the gain in hundredths of a dB.                             *)
(***************************************************************************)
LINE_SIZE == 128

ConfigKeys ==
    {"persistence_threshold_ms", "input_gain_db", "bandpass_low_hz",
     "bandpass_high_hz", "averaging_enabled", "squelch_enabled", "squelch_threshold"}

L(pad, key, value, ok) == [pad |-> pad, key |-> key, value |-> value, ok |-> ok]

\* the parameters as a record over the keys
Parameters ==
    [persistence_threshold_ms |-> persistence_threshold_ms,
     input_gain_db |-> input_gain_db,
     bandpass_low_hz |-> bandpass_low_hz,
     bandpass_high_hz |-> bandpass_high_hz,
     averaging_enabled |-> averaging_enabled,
     squelch_enabled |-> squelch_enabled,
     squelch_threshold |-> squelch_threshold]

\* a piece of the line starts at the key, and one sscanf of the chain returns 1
Scanned(line) ==
    /\ line.pad % (LINE_SIZE - 1) = 0
    /\ line.key \in ConfigKeys
    /\ line.ok

\* i ? true : false for the two flags
Stored(line) ==
    IF line.key \in {"averaging_enabled", "squelch_enabled"} THEN line.value # 0
    ELSE line.value

LoadLines_FirstWins(cfg, lines) ==
    [k \in ConfigKeys |->
        IF \E n \in DOMAIN lines : Scanned(lines[n]) /\ lines[n].key = k
        THEN Stored(lines[CHOOSE n \in DOMAIN lines :
                              /\ Scanned(lines[n]) /\ lines[n].key = k
                              /\ \A m \in 1 .. n - 1 :
                                    ~(Scanned(lines[m]) /\ lines[m].key = k)])
        ELSE cfg[k]]

\* the while loop of lines 689-707
RECURSIVE LoadLines(_, _)
LoadLines(cfg, lines) ==
    IF lines = << >> THEN cfg
    ELSE LoadLines(IF Scanned(Head(lines))
                   THEN [cfg EXCEPT ![Head(lines).key] = Stored(Head(lines))]
                   ELSE cfg,
                   Tail(lines))

Assign(cfg) ==
    /\ persistence_threshold_ms' = cfg.persistence_threshold_ms
    /\ input_gain_db' = cfg.input_gain_db
    /\ bandpass_low_hz' = cfg.bandpass_low_hz
    /\ bandpass_high_hz' = cfg.bandpass_high_hz
    /\ averaging_enabled' = cfg.averaging_enabled
    /\ squelch_enabled' = cfg.squelch_enabled
    /\ squelch_threshold' = cfg.squelch_threshold

\* fopen succeeds: lines 688-708
LoadConfig ==
    /\ load_pc = "start"
    /\ Assign(LoadLines(Parameters, config_file))
    /\ config_file' = << >>
    /\ load_pc' = "read"
    /\ UNCHANGED <<engine, keyed_frames, threads>>

\* fopen fails: lines 684-687
NoConfig ==
    /\ load_pc = "start"
    /\ config_file' = << >>
    /\ load_pc' = "absent"
    /\ UNCHANGED <<engine, settings, keyed_frames, threads, input_gain_db>>

\* lines that sinDet.cfg can hold: values in range, values out of range, and
\* lines that start with no key
GoodLines ==
    {L(0, "persistence_threshold_ms", 150, TRUE),
     L(0, "persistence_threshold_ms", 100, TRUE),
     L(0, "input_gain_db", 300, TRUE),
     L(0, "bandpass_low_hz", 4000, TRUE),
     L(0, "bandpass_high_hz", 8000, TRUE),
     L(0, "averaging_enabled", 1, TRUE),
     L(0, "squelch_enabled", 2, TRUE),
     L(0, "squelch_threshold", 50, TRUE)}

BadLines ==
    {L(0, "persistence_threshold_ms", 0, TRUE),
     L(0, "persistence_threshold_ms", -50, TRUE),
     L(0, "bandpass_low_hz", 30000, TRUE),
     L(0, "bandpass_high_hz", 10, TRUE),
     L(0, "squelch_threshold", 150, TRUE),
     L(0, "squelch_threshold", -10, TRUE)}

OtherLines ==
    {L(0, "comment", 0, TRUE),
     L(0, "persistence_threshold_ms", 0, FALSE),
     L(1, "persistence_threshold_ms", 100, TRUE),
     L(LINE_SIZE - 1, "squelch_enabled", 1, TRUE)}

ConfigLines == GoodLines \cup BadLines \cup OtherLines

MaxLines == 2

ConfigFiles == UNION {[1 .. n -> ConfigLines] : n \in 0 .. MaxLines}

MaxConfigTime == 240

\* main at its first line (105): the parameters at their defaults of lines 46-91
InitConfig ==
    /\ Boot
    /\ persistence_threshold_ms = DefaultPersistence
    /\ keyed_frames = 0
    /\ input_gain_db = 0
    /\ config_file \in ConfigFiles
    /\ load_pc = "start"

ConfigFrame ==
    /\ load_pc # "start"
    /\ \E raw \in {Silence, FullScaleA}, dt \in FrameSteps :
          /\ now + dt <= MaxConfigTime
          /\ audio_callback(raw, now + dt)
          /\ UNCHANGED <<keyed_frames, threads, startup>>

NextConfig == LoadConfig \/ NoConfig \/ ConfigFrame

SpecConfig == InitConfig /\ [][NextConfig]_vars

\* the parameters are in the ranges the core is written for
Validated ==
    /\ SINE_WAVE_MIN_HZ <= bandpass_low_hz
    /\ bandpass_low_hz < bandpass_high_hz
    /\ bandpass_high_hz <= SINE_WAVE_MAX_HZ
    /\ persistence_threshold_ms > 0
    /\ squelch_threshold \in 0 .. SQUELCH_MAX

\* C22: audio_callback runs with validated parameters only: cutoffs with
\* 20 <= low < high <= 20000, a positive persistence threshold and a squelch
\* threshold in 0.0 .. 1.0, whatever sinDet.cfg held.
C22_ValidatedParameters == [][IsFrame => Validated]_vars

\* the value of key k after a file of these lines, a line counting as a line of
\* its key when its pad is in pads: that of the last such line, else value
LastSet(lines, k, pads, value) ==
    LET at == {n \in DOMAIN lines :
                  lines[n].pad \in pads /\ lines[n].key = k /\ lines[n].ok}
    IN  IF at = {} THEN value
        ELSE Stored(lines[CHOOSE n \in at : \A m \in at : m <= n])

\* C23: load_config leaves each parameter at the value of the last line
\* key=value of its key, and at its default when the file has no such line or
\* is missing; every other line is ignored.
C23_ConfigDefaults ==
    [][load_pc = "start" =>
          IF load_pc' = "absent" THEN Parameters' = Parameters
          ELSE \A k \in ConfigKeys :
                  Parameters'[k] = LastSet(config_file, k, {0}, Parameters[k])]_vars

\* C23 as load_config does it: as above, where a line of more than
\* sizeof(line) - 1 characters is read as several lines, so that a key=value
\* text that starts at a multiple of sizeof(line) - 1 characters sets its key.
C23_ConfigDefaultsByPiece ==
    [][load_pc = "start" =>
          IF load_pc' = "absent" THEN Parameters' = Parameters
          ELSE \A k \in ConfigKeys :
                  Parameters'[k] =
                      LastSet(config_file, k, {0, LINE_SIZE - 1}, Parameters[k])]_vars

\* a file that set two of the seven parameters and left the others at their defaults
C23_Witness ==
    /\ load_pc = "read"
    /\ persistence_threshold_ms = 100
    /\ squelch_enabled
    /\ bandpass_low_hz = SINE_WAVE_MIN_HZ
    /\ bandpass_high_hz = SINE_WAVE_MAX_HZ
    /\ input_gain_db = 0
    /\ squelch_threshold = DefaultSquelch
    /\ ~averaging_enabled

(***************************************************************************)
(* Properties of update_track and of the peak extractor.                   *)
(***************************************************************************)
\* C24: a pending track that a callback does not match is not activated by that
\* callback: it stays pending or returns to empty, and the callback runs the
\* decoder for no slot that was pending.
C24_PendingDropped ==
    [][IsFrame =>
          \A i \in Slots :
              (IsPending(tracks[i]) /\ last_match'[i] # now') =>
                  /\ ~tracks'[i].active
                  /\ DecoderRuns(decoded', i) = 0]_vars

(***************************************************************************)
(* update_track alone (lines 437-467), called on track arrays that earlier *)
(* calls and the state-update step have left, with peaks at and around the *)
(* frequencies of the tracks.                                              *)
(***************************************************************************)
FillStep == 120

\* the purity of a call, as <<peak_power, total_power>>
Purities == {<<3, 4>>, <<1, 1>>}

\* the tracks after a peak at every second bin from ToneBinA on, n peaks in all,
\* each of its own callback
RECURSIVE Filled(_)
Filled(n) ==
    IF n = 0 THEN [i \in Slots |-> EmptyTrack]
    ELSE update_track(Filled(n - 1), BinFreq(ToneBinA + 2 * (n - 1)), <<3, 4>>,
                      FillStep * n)

\* lines 579-581 for slot i at tick t
Activated(tr, i, t) ==
    [tr EXCEPT ![i].active = TRUE, ![i].last_seen = t, ![i].tone_start = t]

\* lines 598-600 for slot i
Emptied(tr, i) ==
    [tr EXCEPT ![i].active = FALSE, ![i].start_time = 0, ![i].tone_start = 0]

TrackArrays ==
    {[n |-> 0, tr |-> Filled(0)],
     [n |-> 3, tr |-> Activated(Filled(3), 0, FillStep * 3)],
     [n |-> 3,
      tr |-> Emptied(Activated(Activated(Filled(3), 0, FillStep * 3), 1, FillStep * 3),
                     1)],
     [n |-> MAX_TRACKED_SINES,
      tr |-> Activated(Filled(MAX_TRACKED_SINES), 0, FillStep * MAX_TRACKED_SINES)]}

\* peaks at slot 0's frequency, at FREQUENCY_TOLERANCE from it and just beyond,
\* at slot 1's frequency, and at a bin no track is near
PeakFreqs ==
    {BinFreq(ToneBinA),
     BinFreq(ToneBinA) + Hz(FREQUENCY_TOLERANCE),
     BinFreq(ToneBinA) - Hz(FREQUENCY_TOLERANCE),
     BinFreq(ToneBinA) + Hz(FREQUENCY_TOLERANCE) + 1,
     BinFreq(ToneBinA + 2),
     BinFreq(ToneBinA + 1)}

MaxTrackCalls == 2

InitTrack ==
    /\ Idle
    /\ Configured
    /\ bandpass_low_hz = SINE_WAVE_MIN_HZ
    /\ bandpass_high_hz = SINE_WAVE_MAX_HZ
    /\ averaging_enabled = FALSE
    /\ squelch_enabled = FALSE
    /\ squelch_threshold = DefaultSquelch
    /\ persistence_threshold_ms = DefaultPersistence
    /\ keyed_frames = 0
    /\ now = FillStep * MAX_TRACKED_SINES
    /\ \E a \in TrackArrays :
          /\ tracks = a.tr
          /\ last_match = [i \in Slots |-> IF i < a.n THEN FillStep * (i + 1) ELSE 0]
    /\ unbroken = [i \in Slots |-> TRUE]

\* update_track(freq, purity, now) with the clock at now + dt
TrackCall ==
    \E freq \in PeakFreqs, purity \in Purities, dt \in FrameSteps :
        /\ now + dt <= FillStep * MAX_TRACKED_SINES + MaxTrackCalls * dt
        /\ now' = now + dt
        /\ tracks' = update_track(tracks, freq, purity, now + dt)
        /\ calls' = <<[freq |-> freq, purity |-> purity,
                       match |-> MatchSlot(tracks, freq)]>>
        /\ last_match' = IF MatchSlot(tracks, freq) = -1 THEN last_match
                         ELSE [last_match EXCEPT ![MatchSlot(tracks, freq)] = now + dt]
        /\ UNCHANGED <<out, avg_powers, magnitudes, top_indices, unbroken, decoded,
                       estimated_dot_ms, morse_buffer, morse_length, settings,
                       keyed_frames, threads, startup>>

NextTrack == TrackCall

SpecTrack == InitTrack /\ [][NextTrack]_vars

\* the non-empty slots within FREQUENCY_TOLERANCE of freq
Near(freq) ==
    {i \in Slots : tracks[i].start_time # 0
                   /\ Abs(tracks[i].freq - freq) <= Hz(FREQUENCY_TOLERANCE)}

\* C25: a call of update_track with a frequency within FREQUENCY_TOLERANCE
\* (inclusive) of some non-empty tracks gives the one of lowest index
\* freq = 0.9 * old + 0.1 * new, purity = 100 * purity and last_seen = now, leaves
\* its start_time, tone_start and active, and leaves every other slot.
C25_MatchExisting ==
    [][(IsFrame /\ Near(calls'[1].freq) # {}) =>
          \A i \in Slots :
              tracks'[i] =
                  IF i = MinOf(Near(calls'[1].freq))
                  THEN [tracks[i] EXCEPT
                           !.freq = (9 * tracks[i].freq + calls'[1].freq) \div 10,
                           !.purity = <<100 * calls'[1].purity[1],
                                        calls'[1].purity[2]>>,
                           !.last_seen = now']
                  ELSE tracks[i]]_vars

\* a peak exactly FREQUENCY_TOLERANCE above the active track of slot 0 and one
\* unit below the track of slot 1: slot 0 took it and stays active
C25_Witness ==
    /\ calls # << >>
    /\ calls[1].freq = BinFreq(ToneBinA) + Hz(FREQUENCY_TOLERANCE)
    /\ calls[1].match = 0
    /\ tracks[0].active /\ tracks[0].last_seen = now
    /\ tracks[0].freq # BinFreq(ToneBinA)
    /\ tracks[1].start_time # 0
    /\ tracks[1].freq = BinFreq(ToneBinA) + Hz(FREQUENCY_TOLERANCE) + 1

\* C26: a call of update_track with a frequency that no non-empty track is
\* near makes the empty slot of lowest index pending, with freq the peak's,
\* start_time = last_seen = now, tone_start = 0 and active false, and leaves the
\* other slots; with no empty slot it leaves every track.
C26_ClaimSlot ==
    [][(IsFrame /\ Near(calls'[1].freq) = {}) =>
          \A i \in Slots :
              tracks'[i] =
                  IF tracks[i].start_time = 0
                     /\ \A j \in 0 .. i - 1 : tracks[j].start_time # 0
                  THEN [freq |-> calls'[1].freq,
                        purity |-> <<100 * calls'[1].purity[1], calls'[1].purity[2]>>,
                        start_time |-> now', last_seen |-> now', tone_start |-> 0,
                        active |-> FALSE]
                  ELSE tracks[i]]_vars

\* a peak near no track claimed the released slot 1, below the empty slots 3
\* and 4 and between the tracks of slots 0 and 2
C26_Witness ==
    /\ calls # << >>
    /\ calls[1].match = 1
    /\ IsPending(tracks[1]) /\ tracks[1].start_time = now
    /\ tracks[1].freq = calls[1].freq
    /\ tracks[0].start_time # 0 /\ tracks[2].start_time # 0
    /\ tracks[3].start_time = 0 /\ tracks[4].start_time = 0

(***************************************************************************)
(* The peak extractor and the qualification of its peaks on transforms     *)
(* with several lines: callbacks on the spectra below, with the low cutoff *)
(* moved by the keys Z and X around tone A between them.                   *)
(***************************************************************************)
\* one spectral line of the given power
At(b, power) == [i \in Bins |-> IF i = b THEN power ELSE 0]

\* a line at A whose three bins hold exactly 7/10 of the power
SevenTenths == Mixed(At(ToneBinA, 7), At(ToneBinB, 3))

\* two lines of equal power far apart
EqualLines == Mixed(At(ToneBinA, 10), At(ToneBinB + 1, 10))

\* a weaker line PEAK_SUPPRESS_BINS bins above a stronger one
CloseLines == Mixed(At(ToneBinA, 10), At(ToneBinA + PEAK_SUPPRESS_BINS, 8))

\* a line every third bin, the higher the stronger: more lines than slots
Comb == [i \in Bins |-> IF i % 3 = 1 THEN i ELSE 0]

\* also: the line at A with a little more than 7/10 of the power; two equal
\* bins side by side; power in the first and the last bin with a weak line
\* between them
PeakSpectra ==
    {Silence, FullScaleA, SevenTenths, EqualLines, CloseLines, Comb,
     Mixed(At(ToneBinA, 71), At(ToneBinB, 29)),
     Mixed(At(ToneBinA + 2, 10), At(ToneBinA + 3, 10)),
     Mixed(Mixed(At(0, 50), At(NumBins - 1, 50)), At(ToneBinB - 1, 5))}

MaxPeakTime == 240

PeakSquelch == 10

\* sinDet.cfg holds the low cutoff, the squelch and the averaging switch
InitPeaks ==
    /\ Started
    /\ bandpass_low_hz = BinFreq(ToneBinA) \div FFT_SIZE
    /\ bandpass_high_hz = SINE_WAVE_MAX_HZ
    /\ averaging_enabled \in BOOLEAN
    /\ squelch_enabled \in BOOLEAN
    /\ squelch_threshold = PeakSquelch
    /\ persistence_threshold_ms = DefaultPersistence
    /\ keyed_frames = 0
    /\ Configured

PeakFrame ==
    \E raw \in PeakSpectra, dt \in FrameSteps :
        /\ now + dt <= MaxPeakTime
        /\ audio_callback(raw, now + dt)
        /\ UNCHANGED <<keyed_frames, threads, startup>>

NextPeaks ==
    \/ PeakFrame
    \/ KeyZ /\ bandpass_low_hz' \in LowCuts
    \/ KeyX /\ bandpass_low_hz' \in LowCuts

SpecPeaks == InitPeaks /\ [][NextPeaks]_vars

\* C27: a callback calls update_track for exactly those recorded peaks for
\* which the total power after squelch is not zero, the power of the bins
\* index-1 .. index+1 is more than 7/10 of that total, and the peak's frequency
\* lies inside [bandpass_low_hz, bandpass_high_hz]; a peak holding exactly 7/10
\* of the power gets no call.
C27_PeakQualification ==
    [][IsFrame =>
          LET pw    == FilteredPowers(out')
              total == SumPowers(pw, NumBins)
              three(idx) == pw[idx - 1] + pw[idx] + pw[idx + 1]
              good  == {p \in Slots :
                          /\ top_indices'[p] # -1
                          /\ total # 0
                          /\ 10 * three(top_indices'[p]) > 7 * total
                          /\ Hz(bandpass_low_hz) <= BinFreq(top_indices'[p])
                          /\ BinFreq(top_indices'[p]) <= Hz(bandpass_high_hz)}
          IN  /\ Len(calls') = Cardinality(good)
              /\ {calls'[k].freq : k \in DOMAIN calls'}
                    = {BinFreq(top_indices'[p]) : p \in good}
              /\ \A k \in DOMAIN calls' :
                    calls'[k].purity[2] = total]_vars

\* the line with exactly 7/10 of the power is recorded and not matched
C27_Witness ==
    /\ out = SevenTenths
    /\ ~squelch_enabled /\ ~averaging_enabled
    /\ top_indices[0] = ToneBinA
    /\ top_indices[1] = ToneBinB
    /\ calls = << >>

\* C28: in every callback the extractor records at most MAX_TRACKED_SINES
\* peaks, each a bin of 1 .. FFT_SIZE/2 - 2 whose power is above zero, and any
\* two of them more than PEAK_SUPPRESS_BINS bins apart.
C28_PeakSeparation ==
    [][IsFrame =>
          LET pw   == FilteredPowers(out')
              bins == {top_indices'[p] : p \in Slots} \ {-1}
          IN  /\ Cardinality(bins) <= MAX_TRACKED_SINES
              /\ \A b \in bins : b >= 1 /\ b <= NumBins - 2 /\ pw[b] > 0
              /\ \A p, q \in Slots :
                    (p # q /\ top_indices'[p] # -1 /\ top_indices'[q] # -1)
                    => Abs(top_indices'[p] - top_indices'[q]) > PEAK_SUPPRESS_BINS]_vars

\* the weaker of two lines PEAK_SUPPRESS_BINS bins apart is not recorded
C28_Witness ==
    /\ out = CloseLines
    /\ ~squelch_enabled /\ ~averaging_enabled
    /\ top_indices[0] = ToneBinA
    /\ top_indices[1] = -1

\* C29: the p-th recorded peak is the strongest bin, and of equally strong bins
\* the lowest, among the bins of 1 .. FFT_SIZE/2 - 2 that no earlier peak has
\* suppressed and whose power is above the left neighbour's and not below the
\* right neighbour's; the recorded powers never rise from one peak to the next,
\* and nothing is recorded from the first pass on that finds no such bin.
C29_SelectionOrder ==
    [][IsFrame =>
          LET pw  == FilteredPowers(out')
              top == top_indices'
              suppressed(p) ==
                  {i \in Bins : \E q \in Slots :
                      /\ q < p /\ top[q] # -1
                      /\ i >= top[q] - PEAK_SUPPRESS_BINS
                      /\ i <= top[q] + PEAK_SUPPRESS_BINS}
              maxima(p) ==
                  {i \in 1 .. NumBins - 2 :
                      /\ i \notin suppressed(p)
                      /\ pw[i] > 0
                      /\ pw[i] > pw[i - 1]
                      /\ pw[i] >= pw[i + 1]}
          IN  /\ \A p \in Slots :
                    IF maxima(p) = {} \/ (\E q \in Slots : q < p /\ top[q] = -1)
                    THEN top[p] = -1
                    ELSE /\ top[p] \in maxima(p)
                         /\ \A i \in maxima(p) :
                               \/ pw[i] < pw[top[p]]
                               \/ pw[i] = pw[top[p]] /\ i >= top[p]
              /\ \A p \in Slots \ {0} :
                    top[p] # -1 => pw[top[p - 1]] >= pw[top[p]]]_vars

\* of two equal lines the lower is recorded first, and the third pass finds
\* nothing
C29_Witness ==
    /\ out = EqualLines
    /\ ~squelch_enabled /\ ~averaging_enabled
    /\ top_indices[0] = ToneBinA
    /\ top_indices[1] = ToneBinB + 1
    /\ top_indices[2] = -1

\* C30 (as stated): after the filter stage of every callback, every bin whose
\* frequency is below bandpass_low_hz or above bandpass_high_hz has detection
\* power zero and magnitude zero, with averaging on or off, and also after the
\* cutoffs were changed between two callbacks.
C30_OutOfBandZero ==
    [][IsFrame =>
          \A i \in Bins :
              OutOfBand(i) => FilteredPowers(out')[i] = 0 /\ magnitudes'[i] = 0]_vars

\* C30 (amended): the power of an out-of-band bin is set to zero before the
\* averaging.  With averaging off the bin's detection power and magnitude are
\* zero; with averaging on they are those of 9/10 of the bin's average of the
\* callback before, or zero where the squelch removes that, and so zero once
\* that average is zero.
C30_OutOfBandDecays ==
    [][IsFrame =>
          \A i \in Bins :
              OutOfBand(i) =>
                  LET rest == IF averaging_enabled THEN (9 * avg_powers[i]) \div 10
                              ELSE 0
                  IN  /\ avg_powers'[i] = rest
                      /\ FilteredPowers(out')[i] \in {0, rest}
                      /\ magnitudes'[i] \in
                            {0, IF rest > max_possible_power
                                THEN max_possible_power ELSE rest}
                      /\ (magnitudes'[i] = 0) = (FilteredPowers(out')[i] = 0)
                      /\ ~squelch_enabled => FilteredPowers(out')[i] = rest]_vars

\* tone A was averaged inside the band; the low cutoff then moved above it, and
\* the callback after that still holds power and magnitude in its bin
C30_Witness ==
    /\ now = 2 * 120
    /\ averaging_enabled
    /\ OutOfBand(ToneBinA)
    /\ out = FullScaleA
    /\ avg_powers[ToneBinA] > 0
    /\ magnitudes[ToneBinA] > 0
    /\ top_indices[0] = ToneBinA
    /\ calls = << >>

\* C31: the three-bin neighbourhoods of the recorded peaks are disjoint, so
\* their powers add up to no more than the total and at most one of them holds
\* more than 7/10 of it: a callback calls update_track at most once, and it
\* creates or refreshes at most one track; every other track keeps its freq and
\* purity, and its start_time unless the state update releases it.
C31_OneCallPerFrame ==
    [][IsFrame =>
          LET pw   == FilteredPowers(out')
              bins == {top_indices'[p] : p \in Slots} \ {-1}
              hood(b) == {b - 1, b, b + 1}
              cover == UNION {hood(b) : b \in bins}
          IN  /\ \A a, b \in bins : a # b => hood(a) \cap hood(b) = {}
              /\ SumPowers([i \in Bins |-> IF i \in cover THEN pw[i] ELSE 0], NumBins)
                    <= SumPowers(pw, NumBins)
              /\ Len(calls') <= 1
              /\ Cardinality({i \in Slots : last_match'[i] = now'}) <= 1
              /\ \A i \in Slots :
                    last_match'[i] # now' =>
                        /\ tracks'[i].freq = tracks[i].freq
                        /\ tracks'[i].purity = tracks[i].purity
                        /\ tracks'[i].start_time \in {0, tracks[i].start_time}]_vars

\* two recorded peaks, of which the one with 71/100 of the power is matched
C31_Witness ==
    /\ out = Mixed(At(ToneBinA, 71), At(ToneBinB, 29))
    /\ ~squelch_enabled /\ ~averaging_enabled
    /\ top_indices[0] = ToneBinA
    /\ top_indices[1] = ToneBinB
    /\ Len(calls) = 1
    /\ calls[1].freq = BinFreq(ToneBinA)
    /\ \E i \in Slots : last_match[i] = now /\ tracks[i].freq = BinFreq(ToneBinA)

\* C32: after every callback no two non-empty tracks have frequencies within
\* FREQUENCY_TOLERANCE of each other: the bins are more than twice the
\* tolerance apart, and every non-empty track holds the frequency of the bin
\* whose peak created it.
C32_TracksDistinct ==
    /\ BinFreq(1) > 2 * Hz(FREQUENCY_TOLERANCE)
    /\ \A i \in Slots :
          tracks[i].start_time # 0 => \E b \in Bins : tracks[i].freq = BinFreq(b)
    /\ \A i, j \in Slots :
          (i # j /\ tracks[i].start_time # 0 /\ tracks[j].start_time # 0)
          => Abs(tracks[i].freq - tracks[j].freq) > Hz(FREQUENCY_TOLERANCE)

\* a track of tone A refreshed by a second callback while a track of tone B
\* is held in another slot
C32_Witness ==
    \E i, j \in Slots :
        /\ i # j
        /\ tracks[i].freq = BinFreq(ToneBinA) /\ tracks[i].start_time # 0
        /\ last_match[i] = now /\ tracks[i].start_time < now
        /\ tracks[j].freq = BinFreq(ToneBinB) /\ tracks[j].start_time # 0

\* C33: the callback times never decreasing, every active track has
\* last_seen >= tone_start, and every tone_duration = last_seen - tone_start
\* that a release computes is zero or more: the unsigned subtraction never
\* wraps around.
C33_DurationNeverUnderflows ==
    /\ \A i \in Slots :
          tracks[i].active => tracks[i].last_seen >= tracks[i].tone_start
    /\ \A k \in DOMAIN decoded :
          decoded[k].tone_duration >= 0 /\ decoded[k].tone_duration <= now

\* a track matched by one callback only, activated by the next and released
\* by the one after: its last match lies before its tone_start, and its
\* tone_duration is 0
C33_Witness ==
    \E k \in DOMAIN decoded :
        /\ decoded[k].tone_duration = 0
        /\ last_match[decoded[k].slot] = decoded[k].start_time
        /\ now = decoded[k].start_time + 2 * persistence_threshold_ms

\* C34: with persistence_threshold_ms fixed above zero, a callback releases no
\* track that it activates and no track that it matched; activation sets
\* last_seen and tone_start to the time of the callback, so a track is released
\* no sooner than persistence_threshold_ms after the callback that activated it.
C34_MinimumActiveTime ==
    [][(IsFrame /\ persistence_threshold_ms > 0) =>
          \A i \in Slots :
              /\ ~tracks[i].active => DecoderRuns(decoded', i) = 0
              /\ last_match'[i] = now' =>
                    /\ DecoderRuns(decoded', i) = 0
                    /\ tracks[i].active => tracks'[i].active
              /\ (~tracks[i].active /\ tracks'[i].active) =>
                    tracks'[i].tone_start = now' /\ tracks'[i].last_seen = now'
              /\ (tracks[i].active /\ ~tracks'[i].active) =>
                    /\ DecoderRuns(decoded', i) = 1
                    /\ now' - tracks[i].tone_start >= persistence_threshold_ms
                    /\ now' - tracks[i].last_seen >= persistence_threshold_ms]_vars

\* a tone matched by three callbacks: its track is active from the second, and
\* the callback that follows the last match releases it
C34_Witness ==
    \E k \in DOMAIN decoded :
        /\ decoded[k].tone_duration = persistence_threshold_ms
        /\ now = decoded[k].start_time + 3 * persistence_threshold_ms
        /\ last_match[decoded[k].slot] = now - persistence_threshold_ms
        /\ tracks[decoded[k].slot].start_time = 0

(***************************************************************************)
(* Callbacks that keep arriving: the audio device calls audio_callback for *)
(* every chunk of samples for as long as it runs (SDL_PauseAudioDevice,    *)
(* line 194), and no key changes persistence_threshold_ms.                 *)
(***************************************************************************)
\* the tick read by the next callback (line 553), as Frame draws it
ClockAdvances == \E dt \in FrameSteps : now + dt <= MaxTime /\ now' = now + dt

\* every step of Frame is a step of ClockAdvances, and Frame can be taken
\* whenever ClockAdvances can: fairness of the one is fairness of the other
SpecLive == Init /\ [][Frame]_vars /\ WF_now(ClockAdvances)

\* C35: with persistence_threshold_ms fixed and callbacks that keep arriving,
\* every pending track becomes active, and every active track that a callback
\* has not matched is matched by a later callback or returns to empty; the
\* model stops at MaxTime, so this is stated of the tracks whose threshold is
\* due one callback before that.
C35_SlotsEventuallyFreed ==
    /\ \A i \in Slots :
          (/\ IsPending(tracks[i])
           /\ \A dt \in FrameSteps :
                 tracks[i].start_time + persistence_threshold_ms + dt <= MaxTime)
          ~> IsActive(tracks[i])
    /\ \A i \in Slots :
          (/\ IsActive(tracks[i])
           /\ last_match[i] # now
           /\ \A dt \in FrameSteps :
                 tracks[i].last_seen + persistence_threshold_ms + dt <= MaxTime)
          ~> (IsEmpty(tracks[i]) \/ last_match[i] = now)

\* a slot that a tone held is empty again, two thresholds after the only
\* callback that matched the tone
C35_Witness ==
    /\ persistence_threshold_ms = DefaultPersistence
    /\ \E k \in DOMAIN decoded :
          /\ IsEmpty(tracks[decoded[k].slot])
          /\ last_match[decoded[k].slot] = decoded[k].start_time
          /\ now >= decoded[k].start_time + 2 * persistence_threshold_ms
          /\ \A dt \in FrameSteps :
                decoded[k].start_time + persistence_threshold_ms + dt <= MaxTime

\* C36: estimated_dot_ms starts at 120 ms and is above zero after every
\* release, whatever the durations of the tones, a duration of zero included;
\* so is every estimate that a decoder run reads.
C36_DotStaysPositive ==
    /\ DLess(DZero, estimated_dot_ms)
    /\ \A k \in DOMAIN decoded :
          /\ decoded[k].tone_duration >= 0
          /\ DLess(DZero, decoded[k].dot)

\* the second tone of duration zero in a row: the estimate has fallen twice
\* and is still above zero
C36_Witness ==
    \E k \in DOMAIN decoded :
        /\ decoded[k].tone_duration = 0
        /\ DLess(decoded[k].dot, InitialDot)
        /\ DLess(estimated_dot_ms, decoded[k].dot)
        /\ DLess(DZero, estimated_dot_ms)

\* C37: a callback that releases tracks while the buffer is full leaves
\* morse_buffer and morse_length as they were, and still takes estimated_dot_ms
\* through the update of every released tone, each from its tone_duration
\* last_seen - tone_start, and still resets every released slot to empty.
C37_FullBufferStillAdapts ==
    [][(IsFrame /\ BufferFull /\ decoded' # << >>) =>
          /\ morse_buffer' = morse_buffer
          /\ morse_length' = morse_length
          /\ decoded'[1].dot = estimated_dot_ms
          /\ \A k \in DOMAIN decoded' :
                /\ k > 1 => decoded'[k].dot = Updated(decoded'[k - 1])
                /\ decoded'[k].tone_duration =
                      tracks[decoded'[k].slot].last_seen
                      - tracks[decoded'[k].slot].tone_start
                /\ decoded'[k].symbol =
                      IF DLess(DFromInt(decoded'[k].tone_duration),
                               DAdd(decoded'[k].dot, decoded'[k].dot))
                      THEN "." ELSE "-"
                /\ tracks[decoded'[k].slot].active
                /\ tracks'[decoded'[k].slot].start_time = 0
                /\ ~tracks'[decoded'[k].slot].active
                /\ tracks'[decoded'[k].slot].tone_start = 0
          /\ estimated_dot_ms' = Updated(decoded'[Len(decoded')])]_vars

\* the third release, the second of its callback, with the buffer full: the
\* estimate has moved once more and both slots are empty
C37_Witness ==
    /\ BufferFull
    /\ Len(decoded) = 2
    /\ decoded[1].dot # InitialDot
    /\ estimated_dot_ms = Updated(decoded[2])
    /\ estimated_dot_ms # decoded[2].dot
    /\ \A k \in DOMAIN decoded : tracks[decoded[k].slot].start_time = 0

====
